---- MODULE Spec2Model ----
(***************************************************************************)
(* Skeletal animation runtime of KorEngine: linear algebra primitives      *)
(* (geometry/vec3.rs, geometry/quaternion.rs, geometry/transform.rs),      *)
(* keyframe channels (graphics/animation.rs), the Animator                 *)
(* (graphics/animator.rs), and the input flags of the game loop (lib.rs,   *)
(* input.rs).                                                              *)
(*                                                                         *)
(* f32 values are modelled as exact rationals <<n, d>> in lowest terms     *)
(* with d > 0, so that equal values are equal tuples.  Integers up to 2^24  *)
(* are f32 values and f32 arithmetic on them is exact; an integer result   *)
(* beyond 2^24 is rounded as f32 rounds it (to 24 significant bits, ties   *)
(* to even).  Other rationals are kept exact: NaN, and the rounding of     *)
(* values that are no integers, are outside the model.                     *)
(***************************************************************************)
EXTENDS Integers, Sequences, FiniteSets, TLC

VARIABLES
    \* --- inputs of Animator::new / load_animator (the glTF asset)
    asset,
    \* --- struct Animator (graphics/animator.rs:6-12)
    nodes, start_nodes, inverse_transforms, parents, animations,
    \* --- the two mappings Animator::new returns beside the Animator
    global_mapping, joint_mapping,
    \* --- control: where the caller is, the last two calls, the last return value
    pc, mutations, prev_op, last_op, result,
    \* --- AnimationChannel::compute in isolation
    channel, chan_out,
    \* --- the geometry functions (Transform, Interpolable) in isolation: the
    \*     arguments and what was returned
    xf, xf_out,
    \* --- struct GameLoop (lib.rs:29-35): its Input, its frame count, scene and
    \*     whether the event loop still runs; and what the scenes' update calls saw
    input, gameloop, seen

animator_vars == <<nodes, start_nodes, inverse_transforms, parents, animations>>
caller_vars == <<asset, global_mapping, joint_mapping, pc, mutations, prev_op, last_op, result>>
channel_vars == <<channel, chan_out>>
xf_vars == <<xf, xf_out>>
loop_vars == <<input, gameloop, seen>>
vars == <<animator_vars, caller_vars, channel_vars, xf_vars, loop_vars>>

\* A panic of the Rust program (index out of bounds, unwrap of None).
Panic == [panic |-> TRUE]
\* A non-finite f32 (the result of dividing by zero and whatever is computed from it).
NonFinite == [non_finite |-> TRUE]
\* No value: nothing returned yet, or an Option::None.
None == [none |-> TRUE]

\* v[i] of a Vec or slice, bounds-checked as Rust does (i is 0-based).
InBounds(v, i) == i >= 0 /\ i < Len(v)
Index(v, i) == IF i >= 0 /\ i < Len(v) THEN v[i + 1] ELSE Panic

(***************************************************************************)
(* f32 arithmetic                                                          *)
(***************************************************************************)
Abs(a) == IF a < 0 THEN -a ELSE a

RECURSIVE Gcd(_, _)
Gcd(a, b) == IF b = 0 THEN a ELSE Gcd(b, a % b)

Frac(n, d) ==
    LET g == Gcd(Abs(n), Abs(d))
        s == IF d < 0 THEN -1 ELSE 1
    IN  <<(s * n) \div g, (s * d) \div g>>

R(n) == <<n, 1>>

\* The largest n for which every integer of 0..n is an f32 (24-bit significand).
F32Exact == 16777216

\* The distance between neighbouring f32 values around an integer a > 2^24.
RECURSIVE Spacing(_)
Spacing(a) == IF a < 2 * F32Exact THEN 2 ELSE 2 * Spacing(a \div 2)

\* The multiple of the spacing s nearest to a >= 0, ties to the even multiple.
RoundMag(a, s) ==
    IF 2 * (a % s) > s \/ (2 * (a % s) = s /\ (a \div s) % 2 = 1)
    THEN (a \div s + 1) * s
    ELSE (a \div s) * s

\* The f32 nearest to an integer n beyond 2^24, ties to the even significand.
RECURSIVE RoundBig(_)
RoundBig(n) == IF n < 0 THEN -RoundBig(-n) ELSE RoundMag(n, Spacing(n))

\* The f32 nearest to the integer n.
RoundF32(n) == IF Abs(n) <= F32Exact THEN n ELSE RoundBig(n)

\* Common factors are divided out before multiplying, to keep the integers small.
RAdd(a, b) ==
    IF a[2] = 1 /\ b[2] = 1 THEN <<RoundF32(a[1] + b[1]), 1>>
    ELSE LET g == Gcd(a[2], b[2])
         IN  Frac(a[1] * (b[2] \div g) + b[1] * (a[2] \div g), (a[2] \div g) * b[2])
RNeg(a) == <<-a[1], a[2]>>
RSub(a, b) == RAdd(a, RNeg(b))
RMul(a, b) ==
    IF a[1] = 0 \/ b[1] = 0 THEN <<0, 1>>
    ELSE IF a[2] = 1 /\ b[2] = 1 THEN <<RoundF32(a[1] * b[1]), 1>>
    ELSE LET g1 == Gcd(Abs(a[1]), b[2])
             g2 == Gcd(Abs(b[1]), a[2])
         IN  <<(a[1] \div g1) * (b[1] \div g2), (a[2] \div g2) * (b[2] \div g1)>>
\* b is not zero
RDiv(a, b) == RMul(a, Frac(b[2], b[1]))
RLt(a, b) == a[1] * b[2] < b[1] * a[2]
RLe(a, b) == a[1] * b[2] <= b[1] * a[2]
RGt(a, b) == RLt(b, a)
RGe(a, b) == RLe(b, a)

\* a*b + c*d + e*f
Dot3(a, b, c, d, e, f) == RAdd(RAdd(RMul(a, b), RMul(c, d)), RMul(e, f))

(***************************************************************************)
(* geometry/vec3.rs                                                        *)
(***************************************************************************)
Vec3(x, y, z) == [x |-> x, y |-> y, z |-> z]

Vec3Add(a, b) == Vec3(RAdd(a.x, b.x), RAdd(a.y, b.y), RAdd(a.z, b.z))
Vec3Mul(a, b) == Vec3(RMul(a.x, b.x), RMul(a.y, b.y), RMul(a.z, b.z))
Vec3MulF32(a, k) == Vec3(RMul(a.x, k), RMul(a.y, k), RMul(a.z, k))

(***************************************************************************)
(* geometry/quaternion.rs                                                  *)
(***************************************************************************)
Quaternion(x, y, z, w) == [x |-> x, y |-> y, z |-> z, w |-> w]

QuatAdd(a, b) ==
    Quaternion(RAdd(a.x, b.x), RAdd(a.y, b.y), RAdd(a.z, b.z), RAdd(a.w, b.w))

QuatMulF32(a, k) ==
    Quaternion(RMul(a.x, k), RMul(a.y, k), RMul(a.z, k), RMul(a.w, k))

\* impl Mul for Quaternion: the Hamilton product self * other
QuatMul(self, other) ==
    Quaternion(
        RSub(RAdd(RAdd(RMul(self.x, other.w), RMul(self.w, other.x)),
                  RMul(self.y, other.z)), RMul(self.z, other.y)),
        RSub(RAdd(RAdd(RMul(self.y, other.w), RMul(self.w, other.y)),
                  RMul(self.z, other.x)), RMul(self.x, other.z)),
        RSub(RAdd(RAdd(RMul(self.z, other.w), RMul(self.w, other.z)),
                  RMul(self.x, other.y)), RMul(self.y, other.x)),
        RSub(RSub(RSub(RMul(self.w, other.w), RMul(self.x, other.x)),
                  RMul(self.y, other.y)), RMul(self.z, other.z)))

QuatDot(self, other) ==
    RAdd(RAdd(RAdd(RMul(self.x, other.x), RMul(self.y, other.y)),
              RMul(self.z, other.z)), RMul(self.w, other.w))

(***************************************************************************)
(* geometry/transform.rs.  rotation_scale and translation are 0-indexed in *)
(* the source; m[i][j] of the source is m[i+1][j+1] here.                  *)
(***************************************************************************)
Transform(rs, tr) == [rotation_scale |-> rs, translation |-> tr]

TransformNew ==
    Transform(<< <<R(1), R(0), R(0)>>, <<R(0), R(1), R(0)>>, <<R(0), R(0), R(1)>> >>,
              <<R(0), R(0), R(0)>>)

from_trs(t, r, s) ==
    LET ww == RMul(r.w, r.w)
        xx == RMul(r.x, r.x)
        yy == RMul(r.y, r.y)
        zz == RMul(r.z, r.z)
        wx == RMul(r.w, r.x)
        wy == RMul(r.w, r.y)
        wz == RMul(r.w, r.z)
        xy == RMul(r.x, r.y)
        xz == RMul(r.x, r.z)
        yz == RMul(r.y, r.z)
        two == R(2)
    IN  Transform(
          << << RMul(s.x, RSub(RSub(RAdd(ww, xx), yy), zz)),
                RMul(RMul(s.x, two), RAdd(wz, xy)),
                RMul(RMul(s.x, two), RSub(xz, wy)) >>,
             << RMul(RMul(s.y, two), RSub(xy, wz)),
                RMul(s.y, RSub(RAdd(RSub(ww, xx), yy), zz)),
                RMul(RMul(s.y, two), RAdd(wx, yz)) >>,
             << RMul(RMul(s.z, two), RAdd(wy, xz)),
                RMul(RMul(s.z, two), RSub(yz, wx)),
                RMul(s.z, RAdd(RSub(RSub(ww, xx), yy), zz)) >> >>,
          <<t.x, t.y, t.z>>)

\* A slip: the translation negated but not carried through the transposed block.
reverse_negated_translation(self) ==
    LET m == self.rotation_scale
        t == self.translation
    IN  Transform(
          << <<m[1][1], m[2][1], m[3][1]>>,
             <<m[1][2], m[2][2], m[3][2]>>,
             <<m[1][3], m[2][3], m[3][3]>> >>,
          <<RNeg(t[1]), RNeg(t[2]), RNeg(t[3])>>)

reverse(self) ==
    LET m == self.rotation_scale
        t == self.translation
        row(i) == RSub(RSub(RMul(RNeg(t[1]), m[i][1]), RMul(t[2], m[i][2])),
                       RMul(t[3], m[i][3]))
    IN  Transform(
          << <<m[1][1], m[2][1], m[3][1]>>,
             <<m[1][2], m[2][2], m[3][2]>>,
             <<m[1][3], m[2][3], m[3][3]>> >>,
          <<row(1), row(2), row(3)>>)

to_homogeneous(self) ==
    LET m == self.rotation_scale
        t == self.translation
    IN  << <<m[1][1], m[1][2], m[1][3], R(0)>>,
           <<m[2][1], m[2][2], m[2][3], R(0)>>,
           <<m[3][1], m[3][2], m[3][3], R(0)>>,
           <<t[1], t[2], t[3], R(1)>> >>

\* A slip: the translation read from the fourth column instead of the fourth row.
from_homogeneous_column(m) ==
    Transform(<< <<m[1][1], m[1][2], m[1][3]>>,
                 <<m[2][1], m[2][2], m[2][3]>>,
                 <<m[3][1], m[3][2], m[3][3]>> >>,
              <<m[1][4], m[2][4], m[3][4]>>)

from_homogeneous(m) ==
    Transform(<< <<m[1][1], m[1][2], m[1][3]>>,
                 <<m[2][1], m[2][2], m[2][3]>>,
                 <<m[3][1], m[3][2], m[3][3]>> >>,
              <<m[4][1], m[4][2], m[4][3]>>)

\* A slip: the translation composed in the opposite order to the 3x3 block.
compose_translation_swapped(self, other) ==
    LET a == self.rotation_scale
        b == other.rotation_scale
    IN  Transform(
          [i \in 1..3 |-> [j \in 1..3 |->
              Dot3(a[1][j], b[i][1], a[2][j], b[i][2], a[3][j], b[i][3])]],
          [j \in 1..3 |->
              RAdd(Dot3(self.translation[1], b[1][j], self.translation[2], b[2][j],
                        self.translation[3], b[3][j]),
                   other.translation[j])])

\* A plausible slip: the 3x3 product and the translation with the two
\* operands exchanged.
compose_swapped(self, other) ==
    LET a == other.rotation_scale
        b == self.rotation_scale
    IN  Transform(
          [i \in 1..3 |-> [j \in 1..3 |->
              Dot3(a[1][j], b[i][1], a[2][j], b[i][2], a[3][j], b[i][3])]],
          [j \in 1..3 |->
              RAdd(Dot3(self.translation[1], a[1][j], self.translation[2], a[2][j],
                        self.translation[3], a[3][j]),
                   other.translation[j])])

compose(self, other) ==
    LET a == self.rotation_scale
        b == other.rotation_scale
    IN  Transform(
          [i \in 1..3 |-> [j \in 1..3 |->
              Dot3(a[1][j], b[i][1], a[2][j], b[i][2], a[3][j], b[i][3])]],
          [j \in 1..3 |->
              RAdd(Dot3(other.translation[1], a[1][j], other.translation[2], a[2][j],
                        other.translation[3], a[3][j]),
                   self.translation[j])])

(***************************************************************************)
(* Interpolable (geometry.rs trait; impls in vec3.rs and quaternion.rs)     *)
(***************************************************************************)
IsQuaternion(v) == "w" \in DOMAIN v

\* A slip: the two weights exchanged.
Vec3LinearInterpolationSwapped(self, other, alpha) ==
    Vec3Add(Vec3MulF32(self, alpha), Vec3MulF32(other, RSub(R(1), alpha)))

Vec3LinearInterpolation(self, other, alpha) ==
    Vec3Add(Vec3MulF32(self, RSub(R(1), alpha)), Vec3MulF32(other, alpha))

\* A slip: 3 for 2 as the coefficient of alpha3 in the weight of other.
CubicWeightsWrongCoefficient(time_interval, alpha) ==
    LET alpha2 == RMul(alpha, alpha)
        alpha3 == RMul(alpha2, alpha)
    IN  << RAdd(RSub(RMul(R(2), alpha3), RMul(R(3), alpha2)), R(1)),
           RMul(time_interval, RAdd(RSub(alpha3, RMul(R(2), alpha2)), alpha)),
           RSub(RMul(R(3), alpha2), RMul(R(3), alpha3)),
           RMul(time_interval, RSub(alpha3, alpha2)) >>

\* The four Hermite weights of cubic_interpolation, in the order they are applied:
\* self, out_tangent, other, in_tangent.
CubicWeights(time_interval, alpha) ==
    LET alpha2 == RMul(alpha, alpha)
        alpha3 == RMul(alpha2, alpha)
    IN  << RAdd(RSub(RMul(R(2), alpha3), RMul(R(3), alpha2)), R(1)),
           RMul(time_interval, RAdd(RSub(alpha3, RMul(R(2), alpha2)), alpha)),
           RSub(RMul(R(3), alpha2), RMul(R(2), alpha3)),
           RMul(time_interval, RSub(alpha3, alpha2)) >>

Vec3CubicInterpolation(self, other, out_tangent, in_tangent, time_interval, alpha) ==
    LET w == CubicWeights(time_interval, alpha)
    IN  Vec3Add(Vec3Add(Vec3Add(Vec3MulF32(self, w[1]), Vec3MulF32(out_tangent, w[2])),
                        Vec3MulF32(other, w[3])),
                Vec3MulF32(in_tangent, w[4]))

QuatCubicInterpolation(self, other, out_tangent, in_tangent, time_interval, alpha) ==
    LET w == CubicWeights(time_interval, alpha)
    IN  QuatAdd(QuatAdd(QuatAdd(QuatMulF32(self, w[1]), QuatMulF32(out_tangent, w[2])),
                        QuatMulF32(other, w[3])),
                QuatMulF32(in_tangent, w[4]))

real_linear_interpolation(self, other, alpha) ==
    QuatAdd(QuatMulF32(self, RSub(R(1), alpha)), QuatMulF32(other, alpha))

\* SPERICAL_INTERPOLATION_LIMIT = 0.1 as the fraction LimitNum / LimitDen.
LimitNum == 1
LimitDen == 10

\* A slip: the target not turned to the side of self (d.signum() left out).
QuatLinearInterpolationNoSignum(self, other, alpha) ==
    LET d == QuatDot(self, other)
        one_minus_dd == RSub(R(1), RMul(d, d))
        limit2 == RMul(Frac(LimitNum, LimitDen), Frac(LimitNum, LimitDen))
    IN  IF RLt(one_minus_dd, R(0)) THEN NonFinite
        ELSE IF RLt(one_minus_dd, limit2)
             THEN real_linear_interpolation(self, other, alpha)
        ELSE IF alpha = R(0) THEN self
        ELSE IF alpha = R(1) THEN other
        ELSE [slerp |-> <<self, other, alpha>>]

\* Quaternion::linear_interpolation.  With angle = acos(|d|), norm = sin(angle) is
\* sqrt(1 - d*d) for |d| <= 1, so norm < 0.1 iff 1 - d*d < 0.01.  For |d| > 1 acos
\* gives NaN and every later value is NaN.  On the spherical branch the weights
\* sin((1-alpha)*angle)/norm and sin(alpha*angle)/norm are irrational in general;
\* the result is kept as the term Slerp(self, target, alpha) except at alpha = 0 and
\* alpha = 1 where the weights are exactly (1, 0) and (0, 1).
QuatLinearInterpolation(self, other, alpha) ==
    LET d == QuatDot(self, other)
        signum == IF RLt(d, R(0)) THEN R(-1) ELSE R(1)
        target == QuatMulF32(other, signum)
        one_minus_dd == RSub(R(1), RMul(d, d))
        limit2 == RMul(Frac(LimitNum, LimitDen), Frac(LimitNum, LimitDen))
    IN  IF RLt(one_minus_dd, R(0)) THEN NonFinite
        ELSE IF RLt(one_minus_dd, limit2)
             THEN real_linear_interpolation(self, target, alpha)
        ELSE IF alpha = R(0) THEN self
        ELSE IF alpha = R(1) THEN target
        ELSE [slerp |-> <<self, target, alpha>>]

linear_interpolation(self, other, alpha) ==
    IF IsQuaternion(self) THEN QuatLinearInterpolation(self, other, alpha)
    ELSE Vec3LinearInterpolation(self, other, alpha)

cubic_interpolation(self, other, out_tangent, in_tangent, time_interval, alpha) ==
    IF IsQuaternion(self)
    THEN QuatCubicInterpolation(self, other, out_tangent, in_tangent, time_interval, alpha)
    ELSE Vec3CubicInterpolation(self, other, out_tangent, in_tangent, time_interval, alpha)

(***************************************************************************)
(* graphics/animation.rs.  A Sampler is [mode, seqs]: seqs is <<values>>   *)
(* for Step and Linear and the triple of Sampler::Cubic, in the order of   *)
(* the enum's fields, for Cubic.                                           *)
(***************************************************************************)
\* A slip: the first sequence of a Cubic sampler taken for the values.
SamplerGetValueFirst(sampler, index) == Index(sampler.seqs[1], index)

SamplerGetValue(sampler, index) ==
    IF sampler.mode = "Cubic" THEN Index(sampler.seqs[2], index)
    ELSE Index(sampler.seqs[1], index)

\* A slip: alpha measured back from the end of the interval.
SamplerInterpolateValueFromEnd(sampler, index, t, t_min, t_max) ==
    IF sampler.mode = "Step" THEN Index(sampler.seqs[1], index)
    ELSE IF sampler.mode = "Linear" THEN
        LET values == sampler.seqs[1]
        IN  IF ~InBounds(values, index) \/ ~InBounds(values, index + 1) THEN Panic
            ELSE IF t_max = t_min THEN NonFinite
            ELSE linear_interpolation(Index(values, index), Index(values, index + 1),
                                      RDiv(RSub(t_max, t), RSub(t_max, t_min)))
    ELSE
        LET in_tangents == sampler.seqs[1]
            values == sampler.seqs[2]
            out_tangents == sampler.seqs[3]
            time_interval == RSub(t_max, t_min)
        IN  IF \/ ~InBounds(out_tangents, index)
               \/ ~InBounds(in_tangents, index + 1)
               \/ ~InBounds(values, index)
               \/ ~InBounds(values, index + 1)
            THEN Panic
            ELSE IF t_max = t_min THEN NonFinite
            ELSE cubic_interpolation(Index(values, index), Index(values, index + 1),
                                     Index(out_tangents, index), Index(in_tangents, index + 1),
                                     time_interval, RDiv(RSub(t_max, t), time_interval))

SamplerInterpolateValue(sampler, index, t, t_min, t_max) ==
    IF sampler.mode = "Step" THEN Index(sampler.seqs[1], index)
    ELSE IF sampler.mode = "Linear" THEN
        LET values == sampler.seqs[1]
        IN  IF ~InBounds(values, index) \/ ~InBounds(values, index + 1) THEN Panic
            ELSE IF t_max = t_min THEN NonFinite
            ELSE linear_interpolation(Index(values, index), Index(values, index + 1),
                                      RDiv(RSub(t, t_min), RSub(t_max, t_min)))
    ELSE
        LET in_tangents == sampler.seqs[1]
            values == sampler.seqs[2]
            out_tangents == sampler.seqs[3]
            time_interval == RSub(t_max, t_min)
        IN  IF \/ ~InBounds(out_tangents, index)
               \/ ~InBounds(in_tangents, index + 1)
               \/ ~InBounds(values, index)
               \/ ~InBounds(values, index + 1)
            THEN Panic
            ELSE IF t_max = t_min THEN NonFinite
            ELSE cubic_interpolation(Index(values, index), Index(values, index + 1),
                                     Index(out_tangents, index), Index(in_tangents, index + 1),
                                     time_interval, RDiv(RSub(t, t_min), time_interval))

\* enum AnimatedValue: the property kind, the joint and the value.
AnimatedValue(kind, node_id, value) ==
    IF value = Panic THEN Panic ELSE [kind |-> kind, node_id |-> node_id, value |-> value]

PropertyGetValue(animated_property, index, node_id) ==
    AnimatedValue(animated_property.kind, node_id,
                  SamplerGetValue(animated_property.sampler, index))

PropertyInterpolateValue(animated_property, index, node_id, t, t_min, t_max) ==
    AnimatedValue(animated_property.kind, node_id,
                  SamplerInterpolateValue(animated_property.sampler, index, t, t_min, t_max))

RECURSIVE GetIndexLoop(_, _, _, _)
GetIndexLoop(timestamps, t, index_min, index_max) ==
    IF index_max > index_min + 1 THEN
        LET index_mean == (index_min + index_max) \div 2
        IN  IF RGt(Index(timestamps, index_mean), t)
            THEN GetIndexLoop(timestamps, t, index_min, index_mean)
            ELSE GetIndexLoop(timestamps, t, index_mean, index_max)
    ELSE index_min

\* A slip: the probe compared with >= instead of >.
RECURSIVE GetIndexLoopGe(_, _, _, _)
GetIndexLoopGe(timestamps, t, index_min, index_max) ==
    IF index_max > index_min + 1 THEN
        LET index_mean == (index_min + index_max) \div 2
        IN  IF RGe(Index(timestamps, index_mean), t)
            THEN GetIndexLoopGe(timestamps, t, index_min, index_mean)
            ELSE GetIndexLoopGe(timestamps, t, index_mean, index_max)
    ELSE index_min

\* A slip: the search left out, the first interval taken for every t.
get_index_first_interval(timestamps, t) == 0

get_index_ge(timestamps, t) == GetIndexLoopGe(timestamps, t, 0, Len(timestamps) - 1)

get_index(timestamps, t) == GetIndexLoop(timestamps, t, 0, Len(timestamps) - 1)

\* A slip: the clamp past the last keyframe left out.
ChannelComputeNoUpperClamp(self, t) ==
    IF RLe(t, self.t_min) THEN PropertyGetValue(self.animated_property, 0, self.node_id)
    ELSE LET index == get_index(self.timestamps, t)
         IN  IF ~InBounds(self.timestamps, index + 1) THEN Panic
             ELSE PropertyInterpolateValue(self.animated_property, index, self.node_id, t,
                      Index(self.timestamps, index), Index(self.timestamps, index + 1))

ChannelCompute(self, t) ==
    IF RLe(t, self.t_min) THEN PropertyGetValue(self.animated_property, 0, self.node_id)
    ELSE IF RGe(t, self.t_max)
    THEN PropertyGetValue(self.animated_property, Len(self.timestamps) - 1, self.node_id)
    ELSE LET index == get_index(self.timestamps, t)
         IN  IF ~InBounds(self.timestamps, index + 1) THEN Panic
             ELSE PropertyInterpolateValue(self.animated_property, index, self.node_id, t,
                      Index(self.timestamps, index), Index(self.timestamps, index + 1))

\* A slip: the channels evaluated last to first.
AnimationComputeReversed(self, t) ==
    [k \in 1..Len(self.channels) |->
        ChannelCompute(self.channels[Len(self.channels) + 1 - k], t)]

\* Animation::compute: one value per channel, in the stored order.
AnimationCompute(self, t) == [k \in 1..Len(self.channels) |-> ChannelCompute(self.channels[k], t)]

(***************************************************************************)
(* graphics/animator.rs.  Vecs are sequences; index i of the source is     *)
(* position i + 1 here.  A gltf::Node is [children, translation, rotation, *)
(* scale], its index its position in all_nodes.                            *)
(***************************************************************************)
\* usize::MAX, the "no id" sentinel: larger than every index of the model.
USIZE_MAX == 2147483647

Node(rotation, translation, scale) ==
    [rotation |-> rotation, translation |-> translation, scale |-> scale]

\* vec![x; n]
VecOf(x, n) == [k \in 1..n |-> x]

Last(v) == v[Len(v)]
Max(S) == CHOOSE m \in S : \A x \in S : x <= m

\* Lines 27-29: the last skin-local index that names each node.
GlobalIdToJoint(all_nodes, node_ids) ==
    [g \in 1..Len(all_nodes) |->
        LET is == {i \in 1..Len(node_ids) : node_ids[i] = g - 1}
        IN  IF is = {} THEN USIZE_MAX ELSE Max(is) - 1]

\* Lines 30-35: the last node that lists each node as a child.
AllParents(all_nodes) ==
    [g \in 1..Len(all_nodes) |->
        LET ps == {p \in 1..Len(all_nodes) :
                      \E c \in 1..Len(all_nodes[p].children) : all_nodes[p].children[c] = g - 1}
        IN  IF ps = {} THEN USIZE_MAX ELSE Max(ps) - 1]

\* Lines 36-39.  The loop has no exit on a cycle of parents: after more steps than
\* there are nodes it is known to run forever, reported as USIZE_MAX.
RECURSIVE FindRoot(_, _, _)
FindRoot(all_parents, root_node_id, steps) ==
    IF all_parents[root_node_id + 1] = USIZE_MAX THEN root_node_id
    ELSE IF steps > Len(all_parents) THEN USIZE_MAX
    ELSE FindRoot(all_parents, all_parents[root_node_id + 1], steps + 1)

\* The state of the traversal loop, lines 40-72; panicked when an index was out of bounds.
TraversalStart(all_nodes, node_ids) ==
    [global_id_to_inner |-> VecOf(USIZE_MAX, Len(all_nodes)),
     joint_id_to_inner |-> VecOf(USIZE_MAX, Len(node_ids)),
     parents |-> VecOf(USIZE_MAX, Len(node_ids)),
     start_nodes |-> <<>>,
     inverse_transforms |-> <<>>,
     panicked |-> FALSE]

\* The loop body for a visited node that is joint joint_id of the skin: it takes the next
\* internal id, looks its parent's internal id up and pushes its Node and inverse.
VisitJoint(all_nodes, all_parents, inverse_transform_option, node_id, joint_id, st) ==
    LET inner_id == Len(st.start_nodes)
        joint_id_to_inner == [st.joint_id_to_inner EXCEPT ![joint_id + 1] = inner_id]
        global_id_to_inner == [st.global_id_to_inner EXCEPT ![node_id + 1] = inner_id]
        parent_node == all_parents[node_id + 1]
    IN  IF ~InBounds(global_id_to_inner, parent_node) \/ ~InBounds(st.parents, inner_id)
        THEN [st EXCEPT !.panicked = TRUE]
        ELSE
        LET parent_id == global_id_to_inner[parent_node + 1]
            n == all_nodes[node_id + 1]
            supplied == inverse_transform_option.some
            transforms == inverse_transform_option.transforms
        IN  IF supplied /\ ~InBounds(transforms, joint_id)
            THEN [st EXCEPT !.panicked = TRUE]
            ELSE IF ~supplied /\ parent_id < USIZE_MAX
                    /\ ~InBounds(st.inverse_transforms, parent_id)
            THEN [st EXCEPT !.panicked = TRUE]
            ELSE
            [global_id_to_inner |-> global_id_to_inner,
             joint_id_to_inner |-> joint_id_to_inner,
             parents |-> [st.parents EXCEPT ![inner_id + 1] = parent_id],
             start_nodes |-> Append(st.start_nodes,
                                    Node(n.rotation, n.translation, n.scale)),
             inverse_transforms |-> Append(st.inverse_transforms,
                 IF supplied THEN transforms[joint_id + 1]
                 ELSE LET transform == reverse(from_trs(n.translation, n.rotation, n.scale))
                      IN  IF parent_id < USIZE_MAX
                          THEN compose(transform, st.inverse_transforms[parent_id + 1])
                          ELSE transform),
             panicked |-> FALSE]

\* Lines 41-72: pop a node, push its children, record it when it is a joint.
RECURSIVE Traverse(_, _, _, _, _, _)
Traverse(all_nodes, global_id_to_joint, all_parents, inverse_transform_option, node_to_traverse, st) ==
    IF st.panicked \/ node_to_traverse = <<>> THEN st
    ELSE
    LET node_id == Last(node_to_traverse)
        joint_id == global_id_to_joint[node_id + 1]
        stack == SubSeq(node_to_traverse, 1, Len(node_to_traverse) - 1)
                   \o all_nodes[node_id + 1].children
    IN  Traverse(all_nodes, global_id_to_joint, all_parents, inverse_transform_option, stack,
                 IF joint_id < USIZE_MAX
                 THEN VisitJoint(all_nodes, all_parents, inverse_transform_option,
                                 node_id, joint_id, st)
                 ELSE st)

Diverges == [diverges |-> TRUE]

\* Animator::new: the Animator and the two mappings, or Panic, or Diverges when the
\* root search never ends.
AnimatorNew(all_nodes, node_ids, inverse_transform_option) ==
    IF ~InBounds(node_ids, 0) THEN Panic
    ELSE
    LET global_id_to_joint == GlobalIdToJoint(all_nodes, node_ids)
        all_parents == AllParents(all_nodes)
        root_node_id == FindRoot(all_parents, node_ids[1], 0)
    IN  IF root_node_id = USIZE_MAX THEN Diverges
        ELSE
        LET st == Traverse(all_nodes, global_id_to_joint, all_parents,
                           inverse_transform_option, <<root_node_id>>,
                           TraversalStart(all_nodes, node_ids))
        IN  IF st.panicked THEN Panic
            ELSE [animator |-> [nodes |-> st.start_nodes,
                                start_nodes |-> st.start_nodes,
                                inverse_transforms |-> st.inverse_transforms,
                                parents |-> st.parents,
                                animations |-> <<>>],
                  global_id_to_inner |-> st.global_id_to_inner,
                  joint_id_to_inner |-> st.joint_id_to_inner]

\* A slip: reset left as a no-op.
reset_noop(self) == self

\* A slip: the copy made in the wrong direction, the pose saved over the rest pose.
reset_backwards(self) ==
    IF Len(self.nodes) # Len(self.start_nodes) THEN Panic
    ELSE [self EXCEPT !.start_nodes = self.nodes]

\* A slip: only the root joint restored.
reset_root_only(self) ==
    IF Len(self.nodes) # Len(self.start_nodes) THEN Panic
    ELSE [self EXCEPT !.nodes = [k \in 1..Len(self.nodes) |->
                                    IF k = 1 THEN self.start_nodes[k] ELSE self.nodes[k]]]

\* Animator::reset: clone_from_slice panics when the two lengths differ.
reset(self) ==
    IF Len(self.nodes) # Len(self.start_nodes) THEN Panic
    ELSE [self EXCEPT !.nodes = self.start_nodes]

NodeTransform(n) == from_trs(n.translation, n.rotation, n.scale)

\* Lines 100-108 from joint i on.
RECURSIVE ComputeTransformsLoop(_, _, _, _)
ComputeTransformsLoop(self, i, cumulated_transforms, res) ==
    IF i >= Len(self.nodes) THEN [transforms |-> res]
    ELSE IF ~InBounds(self.parents, i) THEN Panic
    ELSE IF ~InBounds(cumulated_transforms, self.parents[i + 1]) THEN Panic
    ELSE IF ~InBounds(self.inverse_transforms, i) THEN Panic
    ELSE
    LET transform == compose(cumulated_transforms[self.parents[i + 1] + 1],
                             NodeTransform(self.nodes[i + 1]))
    IN  ComputeTransformsLoop(self, i + 1, Append(cumulated_transforms, transform),
                              Append(res, compose(transform, self.inverse_transforms[i + 1])))

\* Animator::compute_transforms: [transforms |-> the returned Vec], or Panic.
compute_transforms(self) ==
    IF ~InBounds(self.nodes, 0) \/ ~InBounds(self.inverse_transforms, 0) THEN Panic
    ELSE
    LET transform == NodeTransform(self.nodes[1])
    IN  ComputeTransformsLoop(self, 1, <<transform>>,
                              <<compose(transform, self.inverse_transforms[1])>>)

scale_node(self, node_id, scale) ==
    IF ~InBounds(self.nodes, node_id) THEN Panic
    ELSE [self EXCEPT !.nodes[node_id + 1].scale = Vec3Mul(@, scale)]

translate_node(self, node_id, translation) ==
    IF ~InBounds(self.nodes, node_id) THEN Panic
    ELSE [self EXCEPT !.nodes[node_id + 1].translation = Vec3Add(@, translation)]

\* A slip: the new rotation multiplied in on the right.
rotate_node_right(self, node_id, rotation) ==
    IF ~InBounds(self.nodes, node_id) THEN Panic
    ELSE [self EXCEPT !.nodes[node_id + 1].rotation = QuatMul(@, rotation)]

rotate_node(self, node_id, rotation) ==
    IF ~InBounds(self.nodes, node_id) THEN Panic
    ELSE [self EXCEPT !.nodes[node_id + 1].rotation = QuatMul(rotation, @)]

\* The body of animate's loop for one AnimatedValue.
\* A slip: the whole joint overwritten with the value in all three components' place.
ApplyAnimatedValueWholeNode(ns, animated_value) ==
    IF animated_value.kind = "Rotation"
    THEN [ns EXCEPT ![animated_value.node_id + 1].rotation = animated_value.value]
    ELSE [ns EXCEPT ![animated_value.node_id + 1].translation = animated_value.value,
                    ![animated_value.node_id + 1].scale = animated_value.value]

ApplyAnimatedValue(ns, animated_value) ==
    CASE animated_value.kind = "Translation" ->
            [ns EXCEPT ![animated_value.node_id + 1].translation = animated_value.value]
      [] animated_value.kind = "Rotation" ->
            [ns EXCEPT ![animated_value.node_id + 1].rotation = animated_value.value]
      [] animated_value.kind = "Scale" ->
            [ns EXCEPT ![animated_value.node_id + 1].scale = animated_value.value]

RECURSIVE AnimateLoop(_, _, _)
AnimateLoop(ns, values, k) ==
    IF k > Len(values) THEN [nodes |-> ns]
    ELSE IF values[k] = Panic THEN Panic
    ELSE IF ~InBounds(ns, values[k].node_id) THEN Panic
    ELSE AnimateLoop(ApplyAnimatedValue(ns, values[k]), values, k + 1)

\* Animator::animate
animate(self, id, t) ==
    IF ~InBounds(self.animations, id) THEN Panic
    ELSE LET r == AnimateLoop(self.nodes, AnimationCompute(self.animations[id + 1], t), 1)
         IN  IF r = Panic THEN Panic ELSE [self EXCEPT !.nodes = r.nodes]

(***************************************************************************)
(* Inputs: the f32 triples and quaternions the specifications draw from.   *)
(***************************************************************************)
V(x, y, z) == Vec3(R(x), R(y), R(z))
Q(x, y, z, w) == Quaternion(R(x), R(y), R(z), R(w))

QuatIdentity == Q(0, 0, 0, 1)
\* 120 degrees about (1,1,1)
QuatThird == Quaternion(Frac(1, 2), Frac(1, 2), Frac(1, 2), Frac(1, 2))
\* a rotation about x with cos = 7/25
QuatAboutX == Quaternion(Frac(3, 5), R(0), R(0), Frac(4, 5))
\* half turns about x and about y
QuatHalfTurnX == Q(1, 0, 0, 0)
QuatHalfTurnY == Q(0, 1, 0, 0)

Translations == {V(0, 0, 0), V(1, 2, 3)}
Rotations == {QuatIdentity, QuatThird, QuatAboutX}
Scales == {V(1, 1, 1), V(2, 1, 3)}

\* A transform that is no rotation and no scale (read from a raw matrix).
Shear ==
    from_homogeneous(<< <<R(1), R(1), R(0), R(0)>>, <<R(0), R(1), R(0), R(0)>>,
                        <<R(2), R(0), R(1), R(0)>>, <<R(0), R(-1), R(4), R(1)>> >>)

TransformInputs ==
    {from_trs(t, r, s) : t \in Translations, r \in Rotations, s \in Scales} \cup {Shear}

(***************************************************************************)
(* Specification SpecTransform: Transform operations on drawn inputs.      *)
(***************************************************************************)
AnimatorIdle ==
    /\ asset = None
    /\ nodes = <<>> /\ start_nodes = <<>> /\ inverse_transforms = <<>>
    /\ parents = <<>> /\ animations = <<>>
    /\ global_mapping = <<>> /\ joint_mapping = <<>>
    /\ pc = "idle" /\ mutations = 0
    /\ prev_op = "none" /\ last_op = [op |-> "none"] /\ result = None

ChannelIdle == channel = None /\ chan_out = None

TransformIdle == xf = None /\ xf_out = None

LoopIdle == input = None /\ gameloop = None /\ seen = None

InitTransform ==
    /\ AnimatorIdle /\ ChannelIdle /\ LoopIdle
    /\ xf \in [self : TransformInputs, other : TransformInputs]
    /\ xf_out = None

Compose ==
    /\ xf # None /\ xf_out = None
    /\ xf_out' = [op |-> "compose", value |-> compose(xf.self, xf.other)]
    /\ UNCHANGED <<xf, animator_vars, caller_vars, channel_vars, loop_vars>>

\* t.reverse()
ReverseTransform ==
    /\ xf # None /\ xf_out = None
    /\ xf_out' = [op |-> "reverse", value |-> reverse(xf.self)]
    /\ UNCHANGED <<xf, animator_vars, caller_vars, channel_vars, loop_vars>>

\* Transform::from_homogeneous(t.to_homogeneous())
RoundTrip ==
    /\ xf # None /\ xf_out = None
    /\ xf_out' = [op |-> "round_trip", matrix |-> to_homogeneous(xf.self),
                  value |-> from_homogeneous(to_homogeneous(xf.self))]
    /\ UNCHANGED <<xf, animator_vars, caller_vars, channel_vars, loop_vars>>

\* A transform far from the origin: its translation is the last integer before the
\* f32 grid widens to 2.
FarAway == from_trs(V(F32Exact, 0, 0), QuatIdentity, V(1, 1, 1))

\* Every entry of the transform is an integer.
IntegerValued(t) ==
    /\ \A i, j \in 1..3 : t.rotation_scale[i][j][2] = 1
    /\ \A j \in 1..3 : t.translation[j][2] = 1

\* The transforms composed with self and other: the drawn ones, and the far one with
\* operands whose entries are integers (so that every intermediate value is an integer).
ThirdInputs ==
    TransformInputs
      \cup (IF IntegerValued(xf.self) /\ IntegerValued(xf.other) THEN {FarAway} ELSE {})

\* a.compose(b).compose(c) and a.compose(b.compose(c)) with b = self and c = other.
ComposeThree ==
    /\ xf # None /\ xf_out = None
    /\ \E a \in ThirdInputs :
          xf_out' = [op |-> "compose3", a |-> a,
                     left |-> compose(compose(a, xf.self), xf.other),
                     right |-> compose(a, compose(xf.self, xf.other))]
    /\ UNCHANGED <<xf, animator_vars, caller_vars, channel_vars, loop_vars>>

NextTransform == Compose \/ ReverseTransform \/ RoundTrip \/ ComposeThree

SpecTransform == InitTransform /\ [][NextTransform]_vars

\* The product of two 4x4 matrices and of a row vector with a 4x4 matrix.
MatMul4(A, B) ==
    [i \in 1..4 |-> [j \in 1..4 |->
        RAdd(RAdd(RAdd(RMul(A[i][1], B[1][j]), RMul(A[i][2], B[2][j])),
                  RMul(A[i][3], B[3][j])), RMul(A[i][4], B[4][j]))]]

RowMul4(v, M) ==
    [j \in 1..4 |->
        RAdd(RAdd(RAdd(RMul(v[1], M[1][j]), RMul(v[2], M[2][j])),
                  RMul(v[3], M[3][j])), RMul(v[4], M[4][j]))]

RowVectors == {<<R(1), R(0), R(0), R(1)>>, <<R(0), R(1), R(0), R(1)>>,
               <<R(0), R(0), R(1), R(1)>>, <<R(2), R(-1), R(3), R(1)>>,
               <<R(1), R(1), R(1), R(0)>>}

Composed == xf_out # None /\ xf_out.op = "compose"

\* C6 (as stated): to_homogeneous(a.compose(b)) is to_homogeneous(a) x to_homogeneous(b),
\* so a.compose(b) applies a and then b to a row vector.
C6_ComposeIsSelfThenOther ==
    Composed =>
        /\ to_homogeneous(xf_out.value)
             = MatMul4(to_homogeneous(xf.self), to_homogeneous(xf.other))
        /\ \A v \in RowVectors :
             RowMul4(v, to_homogeneous(xf_out.value))
               = RowMul4(RowMul4(v, to_homogeneous(xf.self)), to_homogeneous(xf.other))

\* C6 (amended): to_homogeneous(a.compose(b)) is to_homogeneous(b) x to_homogeneous(a),
\* so in the row-vector convention a.compose(b) applies b first and then a:
\* v * H(a.compose(b)) = (v * H(b)) * H(a) for every row vector v.
C6_ComposeIsOtherThenSelf ==
    Composed =>
        /\ to_homogeneous(xf_out.value)
             = MatMul4(to_homogeneous(xf.other), to_homogeneous(xf.self))
        /\ \A v \in RowVectors :
             RowMul4(v, to_homogeneous(xf_out.value))
               = RowMul4(RowMul4(v, to_homogeneous(xf.other)), to_homogeneous(xf.self))

\* C6 witness: two transforms that do not commute have been composed.
C6_Witness ==
    /\ Composed
    /\ MatMul4(to_homogeneous(xf.self), to_homogeneous(xf.other))
         # MatMul4(to_homogeneous(xf.other), to_homogeneous(xf.self))
    /\ xf.self.translation # <<R(0), R(0), R(0)>>
    /\ xf.other.translation # <<R(0), R(0), R(0)>>

(***************************************************************************)
(* Specification SpecChannel: AnimationChannel::compute on drawn channels. *)
(* Channels are built as load_channel builds them: t_min and t_max are the *)
(* first and last timestamp.  The timestamps of an asset are not validated *)
(* by the loader, so every sequence is drawn, sorted or not.               *)
(***************************************************************************)
MaxKeys == 3
MaxTime == 3

SeqsUpTo(S, n) == UNION {[1..k -> S] : k \in 1..n}

\* Two keyframes about a year of seconds apart, where the f32 grid has spacing 2, and a
\* time one grid step before the second.
LateKeys == <<R(1), R(33554430)>>
LateTime == R(33554428)

TimestampSeqs == SeqsUpTo({R(k) : k \in 0..MaxTime}, MaxKeys) \cup {LateKeys}

\* The times compute is called with: the half-integers from -1/2 to MaxTime + 1/2.
Times == {Frac(k, 2) : k \in (-1)..(2 * MaxTime + 1)}

\* The times a channel is sampled at.  Between the late keyframes only the late time is
\* drawn: alpha is kept as an exact fraction, and any other time there gives one whose
\* powers have no 32-bit numerator and denominator.
TimesOf(c) == IF c.timestamps = LateKeys THEN {R(0), LateTime, R(33554432)} ELSE Times

\* The value and the two tangents of keyframe k of a Vec3 or a rotation channel:
\* all different, so that a wrong index or a wrong sequence shows.
KeyVec(k) == V(k + 1, 2 * k, 0 - k)
KeyVecIn(k) == V(10 + k, 0, 1)
KeyVecOut(k) == V(20 + k, 1, 0)
KeyQuat(k) == Quaternion(Frac(2 * k, k * k + 1), R(0), R(0), Frac(k * k - 1, k * k + 1))
KeyQuatIn(k) == Q(0, 10 + k, 0, 1)
KeyQuatOut(k) == Q(0, 1, 20 + k, 0)

KeySeq(kind, which, n) ==
    [k \in 1..n |->
        IF kind = "Rotation"
        THEN (CASE which = "in" -> KeyQuatIn(k - 1)
                [] which = "value" -> KeyQuat(k - 1)
                [] OTHER -> KeyQuatOut(k - 1))
        ELSE (CASE which = "in" -> KeyVecIn(k - 1)
                [] which = "value" -> KeyVec(k - 1)
                [] OTHER -> KeyVecOut(k - 1))]

\* The Sampler of a channel of n keyframes: Step(values), Linear(values) or
\* Cubic(in_tangents, values, out_tangents).
MakeSampler(kind, mode, n) ==
    IF mode = "Cubic"
    THEN [mode |-> mode,
          seqs |-> <<KeySeq(kind, "in", n), KeySeq(kind, "value", n), KeySeq(kind, "out", n)>>]
    ELSE [mode |-> mode, seqs |-> <<KeySeq(kind, "value", n)>>]

\* The AnimationChannel load_channel returns.
MakeChannel(node_id, kind, mode, timestamps) ==
    [node_id |-> node_id,
     animated_property |-> [kind |-> kind, sampler |-> MakeSampler(kind, mode, Len(timestamps))],
     timestamps |-> timestamps,
     t_min |-> timestamps[1],
     t_max |-> timestamps[Len(timestamps)]]

Kinds == {"Translation", "Rotation", "Scale"}
Modes == {"Step", "Linear", "Cubic"}

ChannelNodeIds == {0, 2}

InitChannel ==
    /\ AnimatorIdle /\ TransformIdle /\ LoopIdle
    /\ channel \in {MakeChannel(node_id, kind, mode, ts) :
                       node_id \in ChannelNodeIds, kind \in Kinds, mode \in Modes,
                       ts \in TimestampSeqs}
    /\ chan_out = None

ComputeChannel ==
    /\ channel # None /\ chan_out = None
    /\ \E t \in TimesOf(channel) :
          chan_out' = [t |-> t, value |-> ChannelCompute(channel, t)]
    /\ UNCHANGED <<channel, animator_vars, caller_vars, xf_vars, loop_vars>>

NextChannel == ComputeChannel

SpecChannel == InitChannel /\ [][NextChannel]_vars

StrictlyIncreasing(ts) == \A i \in 1..(Len(ts) - 1) : RLt(ts[i], ts[i + 1])

\* Keyframe k's entry of the value sequence the channel was built with, whatever the
\* sampler.
ChannelKeyValue(c, k) == KeySeq(c.animated_property.kind, "value", Len(c.timestamps))[k + 1]

Keyframe(c, k) ==
    [kind |-> c.animated_property.kind, node_id |-> c.node_id, value |-> ChannelKeyValue(c, k)]

Computed == chan_out # None

\* C7: compute never extrapolates.  For t <= t_min it returns keyframe 0's value, for
\* t >= t_max the last keyframe's value (for a Cubic sampler the entry of the value
\* sequence), tagged with the channel's node_id and property kind, in all three modes.
\* The two cases are those of a channel of the data model (strictly increasing
\* timestamps); on any other channel t <= t_min is tested first.
C7_ClampsToFirstAndLastKeyframe ==
    Computed =>
        /\ RLe(chan_out.t, channel.t_min) => chan_out.value = Keyframe(channel, 0)
        /\ ( /\ RGe(chan_out.t, channel.t_max)
             /\ (StrictlyIncreasing(channel.timestamps) \/ RGt(chan_out.t, channel.t_min)) )
              => chan_out.value = Keyframe(channel, Len(channel.timestamps) - 1)

\* C7 witness: a Cubic channel of several keyframes sampled past its last timestamp.
C7_Witness ==
    /\ Computed
    /\ channel.animated_property.sampler.mode = "Cubic"
    /\ Len(channel.timestamps) = MaxKeys
    /\ StrictlyIncreasing(channel.timestamps)
    /\ RGt(chan_out.t, channel.t_max)
    /\ chan_out.value = Keyframe(channel, MaxKeys - 1)

\* The index a linear scan finds: the one i with timestamps[i] <= t < timestamps[i+1].
LinearScan(ts, t) ==
    CHOOSE i \in 0..(Len(ts) - 2) : RLe(ts[i + 1], t) /\ RLt(t, ts[i + 2])

InsideRange(c, t) ==
    /\ Len(c.timestamps) >= 2
    /\ StrictlyIncreasing(c.timestamps)
    /\ RLt(c.t_min, t) /\ RLt(t, c.t_max)

\* C8: for strictly increasing timestamps (two or more) and t_min < t < t_max, get_index
\* returns the unique i with timestamps[i] <= t < timestamps[i+1], the index a linear
\* scan finds, and in Step mode compute(t) returns values[i].
C8_GetIndexFindsInterval ==
    (Computed /\ InsideRange(channel, chan_out.t)) =>
        LET ts == channel.timestamps
            i == get_index(ts, chan_out.t)
        IN  /\ 0 <= i /\ i <= Len(ts) - 2
            /\ RLe(ts[i + 1], chan_out.t) /\ RLt(chan_out.t, ts[i + 2])
            /\ \A j \in 0..(Len(ts) - 2) :
                   (RLe(ts[j + 1], chan_out.t) /\ RLt(chan_out.t, ts[j + 2])) => j = i
            /\ i = LinearScan(ts, chan_out.t)
            /\ channel.animated_property.sampler.mode = "Step"
                 => chan_out.value = Keyframe(channel, LinearScan(ts, chan_out.t))

\* C8 witness: a Step channel sampled exactly on an interior keyframe's timestamp, which
\* starts the second interval.
C8_Witness ==
    /\ Computed /\ InsideRange(channel, chan_out.t)
    /\ channel.animated_property.sampler.mode = "Step"
    /\ Len(channel.timestamps) = MaxKeys
    /\ chan_out.t = channel.timestamps[2]
    /\ chan_out.value = Keyframe(channel, 1)

\* C9: a channel with exactly one keyframe returns that keyframe's value for every t
\* (before, at and after its timestamp) in all three modes; nothing is indexed out of
\* bounds and nothing is interpolated.
C9_SingleKeyframe ==
    (Computed /\ Len(channel.timestamps) = 1) =>
        /\ chan_out.value # Panic
        /\ chan_out.value = Keyframe(channel, 0)

\* C9 witness: a one-keyframe Cubic channel sampled after its timestamp.
C9_Witness ==
    /\ Computed /\ Len(channel.timestamps) = 1
    /\ channel.animated_property.sampler.mode = "Cubic"
    /\ RGt(chan_out.t, channel.t_min)
    /\ chan_out.value = Keyframe(channel, 0)

(***************************************************************************)
(* Assets.  A node hierarchy is drawn as a parent table over NumNodes      *)
(* nodes: node indices carry no meaning for the code beyond identity, so   *)
(* nodes are numbered parents first; the children lists are given in       *)
(* ascending or descending order, the joint list as any non-empty subset   *)
(* of the nodes in ascending or descending order.                          *)
(***************************************************************************)
NumNodes == 4

NodeTranslation(k) == V(k + 1, 0, k)
NodeRotation(k) ==
    CASE k % 3 = 0 -> QuatThird
      [] k % 3 = 1 -> QuatHalfTurnX
      [] OTHER -> QuatIdentity
NodeScale(k, scaled) == IF scaled /\ k % 2 = 1 THEN V(2, 1, 3) ELSE V(1, 1, 1)

GltfNode(k, children, scaled) ==
    [children |-> children, translation |-> NodeTranslation(k),
     rotation |-> NodeRotation(k), scale |-> NodeScale(k, scaled)]

Min(S) == CHOOSE m \in S : \A x \in S : m <= x

RECURSIVE Ascending(_)
Ascending(S) == IF S = {} THEN <<>> ELSE <<Min(S)>> \o Ascending(S \ {Min(S)})

Reverse(v) == [k \in 1..Len(v) |-> v[Len(v) + 1 - k]]

\* The parent tables of the forests on n nodes, parents numbered before children; a
\* node listed as nobody's child has parent -1.
ParentTables(n) ==
    {par \in [0..(n - 1) -> (-1)..(n - 1)] : \A k \in 0..(n - 1) : par[k] < k}

\* The glTF node list of a parent table.
AllNodes(n, par, descending, scaled) ==
    [g \in 1..n |->
        LET cs == Ascending({c \in 0..(n - 1) : par[c] = g - 1})
        IN  GltfNode(g - 1, IF descending THEN Reverse(cs) ELSE cs, scaled)]

JointLists(n) ==
    UNION {{Ascending(S), Reverse(Ascending(S))} : S \in (SUBSET (0..(n - 1))) \ {{}}}

\* The inverse bind matrix an asset supplies for skin-local joint j (read through
\* from_homogeneous by load_animator): all different.
SuppliedInverse(j) ==
    from_homogeneous(<< <<R(1), R(0), R(0), R(0)>>, <<R(0), R(1), R(0), R(0)>>,
                        <<R(0), R(0), R(1), R(0)>>, <<R(0 - j - 1), R(j), R(7), R(1)>> >>)

\* Option<Vec<Transform>>: Some(transforms) or None (transforms then unused).
InverseOption(node_ids, supplied) ==
    [some |-> supplied,
     transforms |-> IF supplied THEN [j \in 1..Len(node_ids) |-> SuppliedInverse(j - 1)]
                    ELSE <<>>]

MakeAsset(all_nodes, node_ids, supplied, clips) ==
    [all_nodes |-> all_nodes, node_ids |-> node_ids,
     inverse_transform_option |-> InverseOption(node_ids, supplied),
     animations |-> clips]

\* Children lists with a cycle, which the loader passes on unchecked, and joint lists
\* whose first joint lies on the cycle: two nodes that are each other's child, a node
\* that is its own child, and a cycle below a root.
CyclicHierarchies ==
    { [children |-> << <<1>>, <<0>> >>, node_ids |-> <<0, 1>>],
      [children |-> << <<0>> >>, node_ids |-> <<0>>],
      [children |-> << <<1>>, <<2>>, <<1>> >>, node_ids |-> <<2, 1>>] }

\* asset is one of the drawn assets (without animation clips): a forest, or one of the
\* cyclic hierarchies.
DrawnAsset(a) ==
    \/ \E par \in ParentTables(NumNodes), descending \in BOOLEAN, scaled \in BOOLEAN,
          node_ids \in JointLists(NumNodes), supplied \in BOOLEAN :
           a = MakeAsset(AllNodes(NumNodes, par, descending, scaled), node_ids, supplied, <<>>)
    \/ \E h \in CyclicHierarchies, scaled \in BOOLEAN, supplied \in BOOLEAN :
           a = MakeAsset([g \in 1..Len(h.children) |-> GltfNode(g - 1, h.children[g], scaled)],
                         h.node_ids, supplied, <<>>)

(***************************************************************************)
(* The assets the Animator is driven on: five hierarchies, each with and   *)
(* without supplied inverse bind matrices and with and without scaled      *)
(* joints, and two animation clips.  A glTF channel is [target, kind,      *)
(* mode, timestamps]; kind "Weights" is a morph-target channel.            *)
(***************************************************************************)
GltfChannel(target, kind, mode, timestamps) ==
    [target |-> target, kind |-> kind, mode |-> mode, timestamps |-> timestamps]

Clips ==
    << [channels |-> << GltfChannel(1, "Translation", "Linear", <<R(0), R(2)>>),
                        GltfChannel(0, "Scale", "Step", <<R(0), R(1)>>),
                        GltfChannel(2, "Rotation", "Step", <<R(0), R(1), R(2)>>),
                        GltfChannel(1, "Weights", "Linear", <<R(0), R(1)>>),
                        GltfChannel(1, "Translation", "Step", <<R(0), R(1)>>) >>],
       [channels |-> << GltfChannel(3, "Scale", "Cubic", <<R(0), R(2)>>),
                        GltfChannel(1, "Rotation", "Cubic", <<R(0), R(2)>>),
                        GltfChannel(2, "Translation", "Step", <<R(1)>>) >>] >>

\* children lists and joint lists of the five hierarchies
Hierarchies ==
    { \* a chain of joints under a root that is no joint
      [children |-> << <<1>>, <<2>>, <<3>>, <<>> >>, node_ids |-> <<1, 2, 3>>],
      \* a joint with two joint children, the skin listing them leaf first
      [children |-> << <<1>>, <<2, 3>>, <<>>, <<>> >>, node_ids |-> <<3, 2, 1>>],
      \* two joints side by side under a root that is no joint
      [children |-> << <<1, 2>>, <<>>, <<>> >>, node_ids |-> <<1, 2>>],
      \* two trees, a joint in each
      [children |-> << <<1>>, <<>>, <<3>>, <<>> >>, node_ids |-> <<1, 3>>],
      \* the root joint is the root of the node tree
      [children |-> << <<1>>, <<>> >>, node_ids |-> <<0, 1>>] }

\* asset is one of the fixtures.
Fixture(a) ==
    \E h \in Hierarchies, scaled \in BOOLEAN, supplied \in BOOLEAN :
        a = MakeAsset([g \in 1..Len(h.children) |-> GltfNode(g - 1, h.children[g], scaled)],
                      h.node_ids, supplied, Clips)

(***************************************************************************)
(* graphics/load_gltf.rs: load_channel and the loop of load_animator       *)
(***************************************************************************)
Contains(v, x) == \E k \in 1..Len(v) : v[k] = x

\* load_channel: None for a channel that is skipped.
load_channel(c, joints, mapping) ==
    IF ~Contains(joints, c.target) THEN None
    ELSE IF c.kind = "Weights" THEN None
    ELSE MakeChannel(mapping[c.target + 1], c.kind, c.mode, c.timestamps)

\* A slip: the rest of the clip dropped at the first channel that is skipped.
RECURSIVE FilterMapChannelsUntilSkip(_, _, _, _)
FilterMapChannelsUntilSkip(cs, k, joints, mapping) ==
    IF k > Len(cs) THEN <<>>
    ELSE LET c == load_channel(cs[k], joints, mapping)
         IN  IF c = None THEN <<>>
             ELSE <<c>> \o FilterMapChannelsUntilSkip(cs, k + 1, joints, mapping)

RECURSIVE FilterMapChannels(_, _, _, _)
FilterMapChannels(cs, k, joints, mapping) ==
    IF k > Len(cs) THEN <<>>
    ELSE LET c == load_channel(cs[k], joints, mapping)
         IN  (IF c = None THEN <<>> ELSE <<c>>) \o FilterMapChannels(cs, k + 1, joints, mapping)

\* Lines 1314-1321: one Animation per animation of the document.
LoadAnimations(clips, joints, mapping) ==
    [a \in 1..Len(clips) |-> [channels |-> FilterMapChannels(clips[a].channels, 1, joints, mapping)]]

(***************************************************************************)
(* Specifications Spec (an Animator loaded from a fixture and driven by    *)
(* its public methods) and SpecNew (Animator::new on every drawn asset,    *)
(* followed by compute_transforms).                                        *)
(***************************************************************************)
MaxMutations == 2

Self ==
    [nodes |-> nodes, start_nodes |-> start_nodes, inverse_transforms |-> inverse_transforms,
     parents |-> parents, animations |-> animations]

SetSelf(a) ==
    /\ nodes' = a.nodes /\ start_nodes' = a.start_nodes
    /\ inverse_transforms' = a.inverse_transforms
    /\ parents' = a.parents /\ animations' = a.animations

Called(call) == prev_op' = last_op.op /\ last_op' = call

NotConstructed ==
    /\ nodes = <<>> /\ start_nodes = <<>> /\ inverse_transforms = <<>>
    /\ parents = <<>> /\ animations = <<>>
    /\ global_mapping = <<>> /\ joint_mapping = <<>>
    /\ pc = "start" /\ mutations = 0
    /\ prev_op = "none" /\ last_op = [op |-> "none"] /\ result = None

Init == ChannelIdle /\ TransformIdle /\ LoopIdle /\ NotConstructed /\ Fixture(asset)

InitNew == ChannelIdle /\ TransformIdle /\ LoopIdle /\ NotConstructed /\ DrawnAsset(asset)

\* The construction ended without an Animator: a panic, or a loop that never ends.
Failed(r) == r = Panic \/ r = Diverges

\* Animator::new called on the asset.
New ==
    /\ pc = "start"
    /\ LET r == AnimatorNew(asset.all_nodes, asset.node_ids, asset.inverse_transform_option)
       IN  IF Failed(r)
           THEN /\ pc' = (IF r = Panic THEN "panicked" ELSE "diverged")
                /\ UNCHANGED <<animator_vars, global_mapping, joint_mapping>>
           ELSE /\ pc' = "ready"
                /\ SetSelf(r.animator)
                /\ global_mapping' = r.global_id_to_inner
                /\ joint_mapping' = r.joint_id_to_inner
    /\ Called([op |-> "new"])
    /\ UNCHANGED <<asset, mutations, result, channel_vars, xf_vars, loop_vars>>

\* load_animator: Animator::new, then the asset's clips pushed to animations.
LoadAnimator ==
    /\ pc = "start"
    /\ LET r == AnimatorNew(asset.all_nodes, asset.node_ids, asset.inverse_transform_option)
       IN  IF Failed(r)
           THEN /\ pc' = (IF r = Panic THEN "panicked" ELSE "diverged")
                /\ UNCHANGED <<animator_vars, global_mapping, joint_mapping>>
           ELSE /\ pc' = "ready"
                /\ SetSelf([r.animator EXCEPT !.animations =
                      LoadAnimations(asset.animations, asset.node_ids, r.global_id_to_inner)])
                /\ global_mapping' = r.global_id_to_inner
                /\ joint_mapping' = r.joint_id_to_inner
    /\ Called([op |-> "load_animator"])
    /\ UNCHANGED <<asset, mutations, result, channel_vars, xf_vars, loop_vars>>

\* The effect of a &mut self method that returned a (the new Animator) or panicked.
Mutated(a) ==
    /\ IF a = Panic THEN pc' = "panicked" /\ UNCHANGED animator_vars
       ELSE pc' = "ready" /\ SetSelf(a)
    /\ mutations' = mutations + 1
    /\ result' = None
    /\ UNCHANGED <<asset, global_mapping, joint_mapping, channel_vars, xf_vars, loop_vars>>

CanMutate == pc = "ready" /\ mutations < MaxMutations

JointIds == 0..(Len(nodes) - 1)
AnimateTimes == {R(0), R(1), R(3)}
ScaleInputs == {V(2, 1, 3)}
TranslationInputs == {V(1, 0, -1)}
RotationInputs == {QuatHalfTurnY}

Animate ==
    /\ CanMutate
    /\ \E id \in 0..(Len(animations) - 1), t \in AnimateTimes :
          /\ Mutated(animate(Self, id, t))
          /\ Called([op |-> "animate", id |-> id, t |-> t])

ScaleNode ==
    /\ CanMutate
    /\ \E node_id \in JointIds, scale \in ScaleInputs :
          /\ Mutated(scale_node(Self, node_id, scale))
          /\ Called([op |-> "scale_node", node_id |-> node_id, arg |-> scale])

TranslateNode ==
    /\ CanMutate
    /\ \E node_id \in JointIds, translation \in TranslationInputs :
          /\ Mutated(translate_node(Self, node_id, translation))
          /\ Called([op |-> "translate_node", node_id |-> node_id, arg |-> translation])

RotateNode ==
    /\ CanMutate
    /\ \E node_id \in JointIds, rotation \in RotationInputs :
          /\ Mutated(rotate_node(Self, node_id, rotation))
          /\ Called([op |-> "rotate_node", node_id |-> node_id, arg |-> rotation])

Reset ==
    /\ pc = "ready"
    /\ LET a == reset(Self)
       IN  IF a = Panic THEN pc' = "panicked" /\ UNCHANGED animator_vars
           ELSE pc' = "ready" /\ SetSelf(a)
    /\ Called([op |-> "reset"])
    /\ result' = None
    /\ UNCHANGED <<asset, global_mapping, joint_mapping, mutations, channel_vars, xf_vars, loop_vars>>

ComputeTransforms ==
    /\ pc = "ready"
    /\ result' = compute_transforms(Self)
    /\ pc' = (IF result' = Panic THEN "panicked" ELSE "ready")
    /\ Called([op |-> "compute_transforms"])
    /\ UNCHANGED <<animator_vars, asset, global_mapping, joint_mapping, mutations,
                   channel_vars, xf_vars, loop_vars>>

Next ==
    \/ LoadAnimator
    \/ Animate
    \/ ScaleNode
    \/ TranslateNode
    \/ RotateNode
    \/ Reset
    \/ ComputeTransforms

Spec == Init /\ [][Next]_vars

NextNew == New \/ ComputeTransforms

SpecNew == InitNew /\ [][NextNew]_vars

(***************************************************************************)
(* Claims about Animator::new (SpecNew)                                    *)
(***************************************************************************)
Constructed == pc = "ready"

\* The hierarchy is one tree: exactly one node is listed as nobody's child.
IsTree(a) ==
    Cardinality({g \in 1..Len(a.all_nodes) : AllParents(a.all_nodes)[g] = USIZE_MAX}) = 1

\* C1: after Animator::new on a tree-shaped hierarchy and any joint list drawn from it
\* (joints need not be contiguous in the tree), every joint with internal id i > 0 has
\* parents[i] < i: an internal id assigned earlier, never the usize::MAX sentinel.
C1_ParentBeforeChild ==
    (Constructed /\ IsTree(asset)) =>
        \A i \in 1..(Len(nodes) - 1) : parents[i + 1] < i

\* The node the root search of Animator::new ends on.
TraversalRoot(a) == FindRoot(AllParents(a.all_nodes), a.node_ids[1], 0)

\* C3: when the skin's root joint is itself the root of the node tree, Animator::new
\* completes, gives that joint internal id 0 and records usize::MAX as parents[0], and a
\* following compute_transforms completes too.
C3_RootJointAtTreeRoot ==
    (pc # "start" /\ Contains(asset.node_ids, TraversalRoot(asset))) =>
        /\ pc = "ready"
        /\ global_mapping[TraversalRoot(asset) + 1] = 0
        /\ parents[1] = USIZE_MAX
        /\ last_op.op = "compute_transforms" => result # Panic

(***************************************************************************)
(* Claims about a loaded Animator driven by its methods (Spec)             *)
(***************************************************************************)
\* C2: for every constructed Animator and after any sequence of animate, scale_node,
\* translate_node, rotate_node, reset and compute_transforms calls, the four per-joint
\* arrays have the same length.
C2_ArraysSameLength ==
    Constructed =>
        /\ Len(nodes) = Len(start_nodes)
        /\ Len(start_nodes) = Len(inverse_transforms)
        /\ Len(inverse_transforms) = Len(parents)

\* What compute_transforms returns on the Animator as load_animator built it, never
\* animated.
FreshResult ==
    compute_transforms(
        AnimatorNew(asset.all_nodes, asset.node_ids, asset.inverse_transform_option).animator)

\* C4: after any sequence of animate, scale_node, translate_node and rotate_node calls,
\* reset() followed by compute_transforms() returns what compute_transforms() returns on
\* a freshly constructed Animator; and a reset() right after a reset() changes nothing.
C4_ResetRestoresRestPose ==
    /\ []((last_op.op = "compute_transforms" /\ prev_op = "reset") => result = FreshResult)
    /\ [][(last_op.op = "reset" /\ last_op'.op = "reset" /\ prev_op' = "reset")
            => (animator_vars' = animator_vars /\ pc' = pc)]_vars

\* C4 witness: the pose was changed as often as the model allows, then reset, then
\* evaluated, and the evaluation returned transforms for several joints.
C4_Witness ==
    /\ last_op.op = "compute_transforms" /\ prev_op = "reset"
    /\ mutations = MaxMutations
    /\ result # Panic
    /\ Len(result.transforms) >= 3
    /\ result = FreshResult

\* The world transform of joint i, composed recursively along the path from the root
\* joint: W_0 = from_trs(node 0), W_i = W_parents[i].compose(from_trs(node i)).
RECURSIVE World(_)
World(i) ==
    IF i = 0 THEN NodeTransform(nodes[1])
    ELSE compose(World(parents[i + 1]), NodeTransform(nodes[i + 1]))

\* C5: compute_transforms returns exactly one transform per joint, in internal-id order,
\* and entry i is W_i.compose(inverse_transforms[i]).
C5_ForwardPassIsRecursiveComposition ==
    last_op.op = "compute_transforms" =>
        /\ result # Panic
        /\ Len(result.transforms) = Len(nodes)
        /\ \A i \in 0..(Len(nodes) - 1) :
              result.transforms[i + 1] = compose(World(i), inverse_transforms[i + 1])

\* (joint, property) is driven by a channel of the clip.
Driven(clip, j, kind) ==
    \E k \in 1..Len(clip.channels) :
        clip.channels[k].node_id = j /\ clip.channels[k].animated_property.kind = kind

\* C10: animate(clip_id, t) changes, for each channel of the clip, only the component
\* the channel drives on nodes[channel.node_id]; every other component of that joint,
\* every joint no channel targets, and start_nodes, parents, inverse_transforms and
\* animations are left unchanged.
C10_AnimateFrame ==
    [][(last_op'.op = "animate" /\ mutations' = mutations + 1) =>
         LET clip == animations[last_op'.id + 1]
         IN  /\ Len(nodes') = Len(nodes)
             /\ \A j \in 0..(Len(nodes) - 1) :
                  /\ ~Driven(clip, j, "Translation")
                       => nodes'[j + 1].translation = nodes[j + 1].translation
                  /\ ~Driven(clip, j, "Rotation")
                       => nodes'[j + 1].rotation = nodes[j + 1].rotation
                  /\ ~Driven(clip, j, "Scale")
                       => nodes'[j + 1].scale = nodes[j + 1].scale
             /\ UNCHANGED <<start_nodes, parents, inverse_transforms, animations>>]_vars

\* C10 witness: one animate call has moved a joint's translation and left the same
\* joint's rotation and scale, and another joint entirely, as they were.
C10_Witness ==
    /\ Constructed /\ last_op.op = "animate" /\ mutations = 1
    /\ \E j \in 1..Len(nodes) :
          /\ nodes[j].translation # start_nodes[j].translation
          /\ nodes[j].rotation = start_nodes[j].rotation
          /\ nodes[j].scale = start_nodes[j].scale
    /\ \E j \in 1..Len(nodes) : nodes[j] = start_nodes[j]

\* The component of a joint's Node a channel of the given kind drives.
Component(n, kind) ==
    CASE kind = "Translation" -> n.translation
      [] kind = "Rotation" -> n.rotation
      [] kind = "Scale" -> n.scale

\* Channels k and l of the clip target the same (joint, property) pair.
SameTarget(clip, k, l) ==
    /\ clip.channels[k].node_id = clip.channels[l].node_id
    /\ clip.channels[k].animated_property.kind = clip.channels[l].animated_property.kind

\* C11: animate evaluates the channels of the clip in their stored order, one value per
\* channel; when several channels of the clip target the same (joint, property) pair,
\* the value left in nodes after animate(clip_id, t) is the one computed by the channel
\* that comes last in the clip's channel list.
C11_LastChannelWins ==
    (Constructed /\ last_op.op = "animate") =>
        LET clip == animations[last_op.id + 1]
            values == AnimationCompute(clip, last_op.t)
        IN  /\ Len(values) = Len(clip.channels)
            /\ \A k \in 1..Len(clip.channels) :
                  /\ values[k] = ChannelCompute(clip.channels[k], last_op.t)
                  /\ (\A l \in (k + 1)..Len(clip.channels) : ~SameTarget(clip, k, l))
                       => Component(nodes[clip.channels[k].node_id + 1],
                                    clip.channels[k].animated_property.kind)
                            = values[k].value

\* C11 witness: a clip with two channels on one (joint, property) pair was applied at a
\* time where the two channels compute different values, and the later one's is in nodes.
C11_Witness ==
    /\ Constructed /\ last_op.op = "animate"
    /\ LET clip == animations[last_op.id + 1]
       IN  \E k \in 1..Len(clip.channels), l \in 1..Len(clip.channels) :
              /\ k < l /\ SameTarget(clip, k, l)
              /\ ChannelCompute(clip.channels[k], last_op.t)
                   # ChannelCompute(clip.channels[l], last_op.t)
              /\ Component(nodes[clip.channels[l].node_id + 1],
                           clip.channels[l].animated_property.kind)
                   = ChannelCompute(clip.channels[l], last_op.t).value

\* b undoes a and a undoes b.
IsInverseOf(a, b) == compose(a, b) = TransformNew /\ compose(b, a) = TransformNew

\* The bind-pose world transform of joint i along the recorded parents; a joint whose
\* recorded parent is the sentinel is at the top.
RECURSIVE BindWorld(_)
BindWorld(i) ==
    IF i = 0 \/ parents[i + 1] >= i THEN NodeTransform(start_nodes[i + 1])
    ELSE compose(BindWorld(parents[i + 1]), NodeTransform(start_nodes[i + 1]))

\* C12: when no inverse bind transforms are supplied, the stored inverse_transforms[i]
\* of every joint is the inverse of the joint's bind-pose local transform composed with
\* inverse_transforms[parents[i]] (for the root joint the inverse of its local transform
\* alone), and so the inverse of the joint's bind-pose world transform, whatever the
\* joint's scale.
C12_DerivedInverseIsInverse ==
    (Constructed /\ ~asset.inverse_transform_option.some) =>
        \A i \in 0..(Len(start_nodes) - 1) :
            /\ parents[i + 1] >= i
                 => IsInverseOf(NodeTransform(start_nodes[i + 1]), inverse_transforms[i + 1])
            /\ IsInverseOf(BindWorld(i), inverse_transforms[i + 1])

\* Node g of the asset is a joint of the skin.
IsJoint(a, g) == Contains(a.node_ids, g)

\* C13: Animator::new returns a node mapping with one entry per asset node, usize::MAX
\* exactly for the nodes that are no joints of the skin and the joint's internal id
\* otherwise, and a joint mapping that sends each skin-local joint index to an internal
\* id, is a bijection onto 0..N-1 (N the number of joints of the skin) and agrees with
\* the node mapping: node_mapping[node_ids[j]] = joint_mapping[j].
C13_Mappings ==
    (Constructed /\ last_op.op = "new") =>
        LET N == Len(asset.node_ids)
        IN  /\ Len(global_mapping) = Len(asset.all_nodes)
            /\ Len(joint_mapping) = N
            /\ \A g \in 0..(Len(asset.all_nodes) - 1) :
                  (global_mapping[g + 1] = USIZE_MAX) <=> ~IsJoint(asset, g)
            /\ \A j \in 1..N : joint_mapping[j] \in 0..(N - 1)
            /\ \A j, k \in 1..N : joint_mapping[j] = joint_mapping[k] => j = k
            /\ \A j \in 1..N : global_mapping[asset.node_ids[j] + 1] = joint_mapping[j]

\* Some joint of the skin lies in another tree than the one the traversal covers.
Disconnected(a) ==
    \E j \in 1..Len(a.node_ids) :
        FindRoot(AllParents(a.all_nodes), a.node_ids[j], 0) # TraversalRoot(a)

\* C15: on a disconnected hierarchy (a joint of the skin that the root found by walking
\* up from the first joint does not reach) Animator::new panics; it does not return an
\* Animator whose mappings hold the usize::MAX sentinel for a joint.
C15_DisconnectedPanics ==
    (pc # "start" /\ TraversalRoot(asset) # USIZE_MAX /\ Disconnected(asset)) =>
        pc = "panicked"

\* The parent links followed upward from the first joint never reach a node without a
\* parent.
NoDiscoverableRoot(a) == TraversalRoot(a) = USIZE_MAX

\* C14: on a cyclic node hierarchy, where the parent links followed upward from the
\* first joint never reach a node without a parent, Animator::new ends with a panic
\* after finitely many steps; it does not loop forever.
C14_CyclicPanics ==
    (pc # "start" /\ NoDiscoverableRoot(asset)) => pc = "panicked"

\* The channel of the asset is one load_channel skips: its target is no joint of the
\* skin, or it drives morph-target weights.
Skipped(a, c) == ~IsJoint(a, c.target) \/ c.kind = "Weights"

\* The channels of a clip of the asset that are not skipped, in their order.
KeptChannels(a, clip) ==
    LET Kept(c) == ~Skipped(a, c) IN SelectSeq(clip.channels, Kept)

\* C16: load_animator skips a malformed channel on its own.  A channel that drives
\* morph-target weights or whose target is no joint of the skin yields no
\* AnimationChannel; every other channel of the clip is loaded, in the original relative
\* order; and the clip is appended all the same, so animations[k] is the asset's k-th
\* animation.
C16_SkipsChannelNotClip ==
    Constructed =>
        /\ Len(animations) = Len(asset.animations)
        /\ \A a \in 1..Len(animations) :
              LET kept == KeptChannels(asset, asset.animations[a])
              IN  /\ Len(animations[a].channels) = Len(kept)
                  /\ \A k \in 1..Len(kept) :
                        animations[a].channels[k]
                          = MakeChannel(global_mapping[kept[k].target + 1], kept[k].kind,
                                        kept[k].mode, kept[k].timestamps)

\* C16 witness: a loaded clip that lost one channel for its morph-target weights and
\* one for its target, and kept several channels, one of them behind the skipped ones.
C16_Witness ==
    /\ Constructed
    /\ \E a \in 1..Len(animations) :
          LET cs == asset.animations[a].channels
          IN  /\ Len(animations[a].channels) >= 2
              /\ \E i, j, k \in 1..Len(cs) :
                    /\ i < k /\ j < k
                    /\ cs[i].kind = "Weights" /\ IsJoint(asset, cs[i].target)
                    /\ cs[j].kind # "Weights" /\ ~IsJoint(asset, cs[j].target)
                    /\ ~Skipped(asset, cs[k])
                    /\ Last(animations[a].channels).timestamps = cs[k].timestamps

(***************************************************************************)
(* Claims about Transform (SpecTransform)                                  *)
(***************************************************************************)
\* The 3x3 block times its transpose is the identity.
IsOrthogonal(t) ==
    LET m == t.rotation_scale
    IN  \A i, j \in 1..3 :
           Dot3(m[i][1], m[j][1], m[i][2], m[j][2], m[i][3], m[j][3])
             = (IF i = j THEN R(1) ELSE R(0))

Reversed == xf_out # None /\ xf_out.op = "reverse"

\* C17: for a Transform t whose rotation-scale block is orthogonal, t.reverse() is the
\* inverse of t: t.compose(t.reverse()) and t.reverse().compose(t) are both the identity
\* transform, and t.reverse().reverse() is t.
C17_ReverseInvertsOrthogonal ==
    (Reversed /\ IsOrthogonal(xf.self)) =>
        /\ compose(xf.self, xf_out.value) = TransformNew
        /\ compose(xf_out.value, xf.self) = TransformNew
        /\ reverse(xf_out.value) = xf.self

\* C17 witness: a transform that turns and moves, with an orthogonal block, was reversed
\* and the result differs from it.
C17_Witness ==
    /\ Reversed /\ IsOrthogonal(xf.self)
    /\ xf.self.rotation_scale # TransformNew.rotation_scale
    /\ xf.self.translation # TransformNew.translation
    /\ xf_out.value # xf.self
    /\ compose(xf.self, xf_out.value) = TransformNew

RoundTripped == xf_out # None /\ xf_out.op = "round_trip"

\* C19: Transform::from_homogeneous(t.to_homogeneous()) has the rotation-scale block and
\* the translation of t, and the matrix to_homogeneous gives has (0, 0, 0, 1) as its
\* fourth column and the translation in its fourth row.
C19_HomogeneousRoundTrip ==
    RoundTripped =>
        /\ xf_out.value.rotation_scale = xf.self.rotation_scale
        /\ xf_out.value.translation = xf.self.translation
        /\ \A i \in 1..3 : xf_out.matrix[i][4] = R(0)
        /\ xf_out.matrix[4][4] = R(1)
        /\ \A j \in 1..3 : xf_out.matrix[4][j] = xf.self.translation[j]

\* C19 witness: a transform with a translation and a block that is not symmetric went
\* through the matrix and came back.
C19_Witness ==
    /\ RoundTripped
    /\ xf.self.translation # TransformNew.translation
    /\ xf.self.rotation_scale[1][2] # xf.self.rotation_scale[2][1]
    /\ xf_out.value = xf.self

ComposedThree == xf_out # None /\ xf_out.op = "compose3"

WithinTolerance(x, y) ==
    \/ x = y
    \/ LET d == RSub(x, y)
           ax == <<Abs(x[1]), x[2]>>
           ay == <<Abs(y[1]), y[2]>>
           larger == IF RLe(ay, ax) THEN ax ELSE ay
       IN  (Abs(d[1]) + d[2] - 1) \div d[2] <= (Abs(larger[1]) \div larger[2]) \div 1048576

CubicValues == {V(1, 2, 3), V(-2, 0, 5), QuatIdentity, QuatThird}
CubicTangents == {V(0, 0, 0), V(10, -1, 4), Q(0, 0, 0, 0), Q(3, 10, -7, 1)}
TimeIntervals == {R(-1), R(0), Frac(1, 2), R(2)}
Alphas == {R(0), Frac(1, 4), Frac(1, 2), R(1)}

InitCubic ==
    /\ AnimatorIdle /\ ChannelIdle /\ LoopIdle
    /\ xf \in {a \in [self : CubicValues, other : CubicValues, out_tangent : CubicTangents,
                      in_tangent : CubicTangents, time_interval : TimeIntervals,
                      alpha : Alphas] :
                  /\ IsQuaternion(a.self) = IsQuaternion(a.other)
                  /\ IsQuaternion(a.self) = IsQuaternion(a.out_tangent)
                  /\ IsQuaternion(a.self) = IsQuaternion(a.in_tangent)}
    /\ xf_out = None

CubicInterpolation ==
    /\ xf # None /\ xf_out = None
    /\ xf_out' = [op |-> "cubic_interpolation",
                  value |-> cubic_interpolation(xf.self, xf.other, xf.out_tangent,
                                                xf.in_tangent, xf.time_interval, xf.alpha)]
    /\ UNCHANGED <<xf, animator_vars, caller_vars, channel_vars, loop_vars>>

NextCubic == CubicInterpolation

SpecCubic == InitCubic /\ [][NextCubic]_vars

Interpolated == xf_out # None /\ xf_out.op = "cubic_interpolation"

\* C20: cubic_interpolation(v0, v1, out_tangent, in_tangent, time_interval, alpha)
\* returns exactly v0 at alpha = 0 and exactly v1 at alpha = 1, whatever the two tangents
\* and the time interval, for Vec3 and component by component for Quaternion.
C20_CubicEndpoints ==
    Interpolated =>
        /\ xf.alpha = R(0) => xf_out.value = xf.self
        /\ xf.alpha = R(1) => xf_out.value = xf.other

\* C20 witness: a Quaternion segment with two different keyframes, tangents that are
\* not zero and an interval that is not 1, evaluated at its end.
C20_Witness ==
    /\ Interpolated
    /\ IsQuaternion(xf.self) /\ xf.self # xf.other
    /\ xf.out_tangent # Q(0, 0, 0, 0) /\ xf.in_tangent # Q(0, 0, 0, 0)
    /\ xf.time_interval = R(2)
    /\ xf.alpha = R(1)
    /\ xf_out.value = xf.other

(***************************************************************************)
(* Claims about interpolation through a channel (SpecChannel)              *)
(***************************************************************************)
IsVec3Channel(c) == c.animated_property.kind \in {"Translation", "Scale"}

ChannelMode(c) == c.animated_property.sampler.mode

\* t lies strictly inside the interval between keyframes i and i + 1 (0-based).
StrictlyInside(ts, i, t) == RLt(ts[i + 1], t) /\ RLt(t, ts[i + 2])

\* v0 * (1 - alpha) + v1 * alpha
Blend(v0, v1, alpha) == Vec3Add(Vec3MulF32(v0, RSub(R(1), alpha)), Vec3MulF32(v1, alpha))

\* C21: for a Linear Vec3 channel (strictly increasing timestamps) and t strictly inside
\* the interval [timestamps[i], timestamps[i+1]], compute(t) returns
\* values[i] * (1 - alpha) + values[i+1] * alpha with
\* alpha = (t - timestamps[i]) / (timestamps[i+1] - timestamps[i]); for two keyframes v0 at
\* t = 0 and v1 at t = 1, compute(0.5) is (v0 + v1) * 0.5.
C21_LinearInterpolation ==
    (Computed /\ IsVec3Channel(channel) /\ ChannelMode(channel) = "Linear"
       /\ StrictlyIncreasing(channel.timestamps)) =>
        LET ts == channel.timestamps
            t == chan_out.t
        IN  /\ \A i \in 0..(Len(ts) - 2) :
                  StrictlyInside(ts, i, t) =>
                      /\ chan_out.value # Panic
                      /\ chan_out.value.kind = channel.animated_property.kind
                      /\ chan_out.value.node_id = channel.node_id
                      /\ chan_out.value.value
                           = Blend(ChannelKeyValue(channel, i), ChannelKeyValue(channel, i + 1),
                                   RDiv(RSub(t, ts[i + 1]), RSub(ts[i + 2], ts[i + 1])))
            /\ (ts = <<R(0), R(1)>> /\ t = Frac(1, 2)) =>
                  chan_out.value.value
                    = Vec3MulF32(Vec3Add(ChannelKeyValue(channel, 0), ChannelKeyValue(channel, 1)),
                                 Frac(1, 2))

\* C21 witness: a Linear translation channel of three keyframes sampled a quarter of the
\* way into its second interval, where the two weights differ.
C21_Witness ==
    /\ Computed /\ IsVec3Channel(channel) /\ ChannelMode(channel) = "Linear"
    /\ channel.timestamps = <<R(0), R(1), R(3)>>
    /\ chan_out.t = Frac(3, 2)
    /\ chan_out.value.value
         = Blend(ChannelKeyValue(channel, 1), ChannelKeyValue(channel, 2), Frac(1, 4))
    /\ chan_out.value.value # ChannelKeyValue(channel, 1)

(***************************************************************************)
(* Specification SpecSlerp: Quaternion::linear_interpolation on drawn unit *)
(* quaternions: pairs a wide angle apart (spherical branch) and pairs a    *)
(* narrow angle apart (linear fallback), on the same side and on opposite  *)
(* sides of the sphere.                                                    *)
(***************************************************************************)
\* a rotation about x by a small angle: its dot product with the identity is 312/313
QuatNearIdentity == Quaternion(Frac(25, 313), R(0), R(0), Frac(312, 313))

QuatNegate(q) == QuatMulF32(q, R(-1))

UnitQuaternions ==
    {QuatIdentity, QuatThird, QuatAboutX, QuatNearIdentity,
     QuatNegate(QuatThird), QuatNegate(QuatNearIdentity)}

InitSlerp ==
    /\ AnimatorIdle /\ ChannelIdle /\ LoopIdle
    /\ xf \in [self : UnitQuaternions, other : UnitQuaternions, alpha : Alphas]
    /\ xf_out = None

LinearInterpolation ==
    /\ xf # None /\ xf_out = None
    /\ xf_out' = [op |-> "linear_interpolation",
                  value |-> QuatLinearInterpolation(xf.self, xf.other, xf.alpha)]
    /\ UNCHANGED <<xf, animator_vars, caller_vars, channel_vars, loop_vars>>

NextSlerp == LinearInterpolation

SpecSlerp == InitSlerp /\ [][NextSlerp]_vars

LinearlyInterpolated == xf_out # None /\ xf_out.op = "linear_interpolation"

\* sin(angle) < 0.1 for the angle between the two quaternions: the linear fallback.
NarrowAngle(q0, q1) ==
    RLt(RSub(R(1), RMul(QuatDot(q0, q1), QuatDot(q0, q1))),
        RMul(Frac(LimitNum, LimitDen), Frac(LimitNum, LimitDen)))

\* C22 (as stated): linear_interpolation(q0, q1, alpha) returns q0 at alpha = 0 and q1 at
\* alpha = 1 for any two unit quaternions, on the spherical and on the fallback branch.
C22_SlerpEndpoints ==
    LinearlyInterpolated =>
        /\ xf.alpha = R(0) => xf_out.value = xf.self
        /\ xf.alpha = R(1) => xf_out.value = xf.other

\* The rotation matrix of a unit quaternion.
RotationOf(q) == from_trs(V(0, 0, 0), q, V(1, 1, 1)).rotation_scale

\* C22 (amended): linear_interpolation(q0, q1, alpha) returns q0 at alpha = 0; at
\* alpha = 1 it returns q1 when dot(q0, q1) >= 0 and -q1 when dot(q0, q1) < 0, which is
\* the same rotation as q1, on the spherical and on the fallback branch.
C22_SlerpEndpointsUpToSign ==
    LinearlyInterpolated =>
        /\ xf.alpha = R(0) => xf_out.value = xf.self
        /\ xf.alpha = R(1) =>
              /\ xf_out.value = (IF RLt(QuatDot(xf.self, xf.other), R(0))
                                 THEN QuatNegate(xf.other) ELSE xf.other)
              /\ RotationOf(xf_out.value) = RotationOf(xf.other)

\* C22 witness: two quaternions a narrow angle apart on opposite sides of the sphere,
\* interpolated to the end on the fallback branch: the result is the second one negated.
C22_Witness ==
    /\ LinearlyInterpolated
    /\ NarrowAngle(xf.self, xf.other)
    /\ xf.self # xf.other /\ xf.self # QuatNegate(xf.other)
    /\ RLt(QuatDot(xf.self, xf.other), R(0))
    /\ xf.alpha = R(1)
    /\ xf_out.value = QuatNegate(xf.other)

(***************************************************************************)
(* Claims about the procedural mutators, reset and immutability (Spec)     *)
(***************************************************************************)
\* The step is a completed call of the named mutator.
MutatorStep(op) == last_op'.op = op /\ mutations' = mutations + 1 /\ pc' = "ready"

\* Every joint but joint i is as it was.
OtherJointsUnchanged(i) ==
    /\ Len(nodes') = Len(nodes)
    /\ \A j \in 0..(Len(nodes) - 1) : j # i => nodes'[j + 1] = nodes[j + 1]

\* C23: the procedural mutators combine with the current pose.  scale_node(i, s) sets
\* nodes[i].scale to the component-wise product of the old scale and s, translate_node(i, d)
\* sets nodes[i].translation to old + d, rotate_node(i, q) sets nodes[i].rotation to the
\* Hamilton product q * old; each call changes only that component of joint i.
C23_MutatorsCombine ==
    [][LET i == last_op'.node_id
           old == nodes[i + 1]
           new == nodes'[i + 1]
       IN  /\ MutatorStep("scale_node") =>
                 /\ new.scale = Vec3(RMul(old.scale.x, last_op'.arg.x),
                                     RMul(old.scale.y, last_op'.arg.y),
                                     RMul(old.scale.z, last_op'.arg.z))
                 /\ new.translation = old.translation /\ new.rotation = old.rotation
                 /\ OtherJointsUnchanged(i)
                 /\ UNCHANGED <<start_nodes, parents, inverse_transforms, animations>>
           /\ MutatorStep("translate_node") =>
                 /\ new.translation = Vec3(RAdd(old.translation.x, last_op'.arg.x),
                                           RAdd(old.translation.y, last_op'.arg.y),
                                           RAdd(old.translation.z, last_op'.arg.z))
                 /\ new.scale = old.scale /\ new.rotation = old.rotation
                 /\ OtherJointsUnchanged(i)
                 /\ UNCHANGED <<start_nodes, parents, inverse_transforms, animations>>
           /\ MutatorStep("rotate_node") =>
                 /\ new.rotation = QuatMul(last_op'.arg, old.rotation)
                 /\ new.scale = old.scale /\ new.translation = old.translation
                 /\ OtherJointsUnchanged(i)
                 /\ UNCHANGED <<start_nodes, parents, inverse_transforms, animations>>]_vars

\* C23 witness: a joint that was scaled and then rotated: its scale is the rest scale
\* times the factor, its rotation the new rotation times the rest rotation, which is
\* neither the new rotation alone nor the product in the other order.
C23_Witness ==
    /\ Constructed /\ mutations = 2
    /\ prev_op = "scale_node" /\ last_op.op = "rotate_node"
    /\ LET n == nodes[last_op.node_id + 1]
           rest == start_nodes[last_op.node_id + 1]
       IN  /\ n.scale = Vec3Mul(rest.scale, V(2, 1, 3)) /\ n.scale # rest.scale
           /\ n.scale # V(2, 1, 3)
           /\ n.rotation = QuatMul(last_op.arg, rest.rotation)
           /\ n.rotation # QuatMul(rest.rotation, last_op.arg)
           /\ n.rotation # last_op.arg
           /\ n.translation = rest.translation

(***************************************************************************)
(* Claims about supplied inverse bind transforms (SpecNew)                 *)
(***************************************************************************)
\* C24: when inverse bind transforms are supplied to Animator::new, one per skin-local
\* joint index, they are used unmodified and re-indexed by internal id: for every
\* skin-local index j, inverse_transforms[joint_mapping[j]] is supplied[j], whatever
\* order the traversal assigned the internal ids in.
C24_SuppliedInverseReindexed ==
    (Constructed /\ asset.inverse_transform_option.some) =>
        \A j \in 0..(Len(asset.node_ids) - 1) :
            /\ InBounds(joint_mapping, j)
            /\ InBounds(inverse_transforms, joint_mapping[j + 1])
            /\ inverse_transforms[joint_mapping[j + 1] + 1]
                 = asset.inverse_transform_option.transforms[j + 1]

\* The Animator load_animator returned for the asset, before any call on it.
LoadedAnimator ==
    LET r == AnimatorNew(asset.all_nodes, asset.node_ids, asset.inverse_transform_option)
    IN  [r.animator EXCEPT !.animations =
            LoadAnimations(asset.animations, asset.node_ids, r.global_id_to_inner)]

\* C25: reset() keeps stale pose state from leaking.  Whatever animate, scale_node,
\* translate_node and rotate_node calls came before, reset() followed by animate(c, t)
\* leaves the nodes array that animate(c, t) leaves on the Animator as it was loaded (and
\* it panics exactly when that one does): the pose depends on the rest pose and (c, t)
\* only, so two histories end in the same nodes.
C25_ResetThenAnimate ==
    (last_op.op = "animate" /\ prev_op = "reset") =>
        LET fresh == animate(LoadedAnimator, last_op.id, last_op.t)
        IN  IF fresh = Panic THEN pc = "panicked"
            ELSE pc = "ready" /\ nodes = fresh.nodes

\* C25 witness: a call that changes the pose, then reset, then an animate that moved
\* some joints and left another at its rest pose.
C25_Witness ==
    /\ Constructed /\ mutations = 2
    /\ last_op.op = "animate" /\ prev_op = "reset"
    /\ nodes # start_nodes
    /\ \E j \in 1..Len(nodes) : nodes[j] = start_nodes[j]
    /\ nodes = animate(LoadedAnimator, last_op.id, last_op.t).nodes

\* The node above node g in the asset, or usize::MAX.
ParentNode(a, g) == AllParents(a.all_nodes)[g + 1]

\* Joint g of the skin hangs directly below another joint.
ParentedToJoint(a, g) == ParentNode(a, g) # USIZE_MAX /\ IsJoint(a, ParentNode(a, g))

\* The joints form one chain or tree: all but one (the root joint) hang directly below
\* a joint.
JointTree(a) ==
    Cardinality({j \in 1..Len(a.node_ids) : ~ParentedToJoint(a, a.node_ids[j])}) = 1

Unscaled(a) == \A g \in 1..Len(a.all_nodes) : a.all_nodes[g].scale = V(1, 1, 1)

AtRestPose == last_op.op = "compute_transforms" /\ prev_op \in {"load_animator", "reset"}

\* C26: rest pose maps to identity.  For an Animator built without supplied inverse bind
\* transforms from a chain or tree of joints, each directly parented to a joint, with
\* unit-quaternion rotations and scale (1, 1, 1), the construction completes and
\* compute_transforms() called right after it or right after reset() returns the
\* identity transform for every joint.
C26_RestPoseIsIdentity ==
    (pc # "start" /\ ~asset.inverse_transform_option.some /\ Unscaled(asset)
       /\ JointTree(asset)) =>
        /\ last_op.op = "load_animator" => pc = "ready"
        /\ AtRestPose =>
              /\ result # Panic
              /\ Len(result.transforms) = Len(asset.node_ids)
              /\ \A i \in 1..Len(result.transforms) : result.transforms[i] = TransformNew

\* C27: the rest-pose snapshot and the hierarchy are immutable after construction.  No
\* animate, scale_node, translate_node, rotate_node, reset or compute_transforms call
\* changes start_nodes, parents or inverse_transforms; compute_transforms changes no
\* Animator state at all, and two consecutive calls of it return equal results.
C27_RestPoseImmutable ==
    /\ [][pc # "start" => UNCHANGED <<start_nodes, parents, inverse_transforms>>]_vars
    /\ [][last_op'.op = "compute_transforms" => UNCHANGED animator_vars]_vars
    /\ [][(last_op.op = "compute_transforms" /\ last_op'.op = "compute_transforms")
            => result' = result]_vars

\* C27 witness: the pose was changed as often as the model allows, without a reset, and
\* then evaluated twice in a row; the snapshot is still the one that was loaded.
C27_Witness ==
    /\ Constructed /\ mutations = MaxMutations
    /\ last_op.op = "compute_transforms" /\ prev_op = "compute_transforms"
    /\ result # Panic
    /\ nodes # start_nodes
    /\ start_nodes = LoadedAnimator.start_nodes
    /\ parents = LoadedAnimator.parents
    /\ inverse_transforms = LoadedAnimator.inverse_transforms

(***************************************************************************)
(* Claims about the interval compute interpolates in (SpecChannel)         *)
(***************************************************************************)
\* compute(t) reaches interpolate_value: t is past the first and before the last
\* timestamp.
ReachesInterpolation(c, t) == RLt(c.t_min, t) /\ RLt(t, c.t_max)

\* C28 (as stated): interpolation through compute never divides by zero and never reads
\* past the end.  Whenever compute reaches interpolate_value, the index i it chose
\* satisfies i + 1 < timestamps.len() and timestamps[i] <= t < timestamps[i+1], hence
\* timestamps[i+1] - timestamps[i] > 0 and 0 <= alpha < 1, even when the timestamps hold
\* equal neighbours or are not sorted.
C28_InterpolationInterval ==
    (Computed /\ ReachesInterpolation(channel, chan_out.t)) =>
        LET ts == channel.timestamps
            t == chan_out.t
            i == get_index(ts, t)
        IN  /\ i >= 0 /\ i + 1 < Len(ts)
            /\ RLe(ts[i + 1], t) /\ RLt(t, ts[i + 2])
            /\ RGt(RSub(ts[i + 2], ts[i + 1]), R(0))
            /\ LET alpha == RDiv(RSub(t, ts[i + 1]), RSub(ts[i + 2], ts[i + 1]))
               IN  RLe(R(0), alpha) /\ RLt(alpha, R(1))

\* The f32 difference of the two integers is exact.
ExactDifference(x, y) == x[2] = 1 /\ y[2] = 1 /\ Abs(x[1] - y[1]) <= F32Exact

\* C28 (amended): whenever compute reaches interpolate_value, the index i it chose
\* satisfies i + 1 < timestamps.len() and timestamps[i] <= t < timestamps[i+1], the
\* divisor timestamps[i+1] - timestamps[i] is > 0, and compute returns a finite value
\* without a panic, sorted timestamps or not; alpha satisfies 0 <= alpha <= 1, and
\* alpha < 1 where the two differences are computed without rounding.
C28_InterpolationIntervalRounded ==
    (Computed /\ ReachesInterpolation(channel, chan_out.t)) =>
        LET ts == channel.timestamps
            t == chan_out.t
            i == get_index(ts, t)
        IN  /\ i >= 0 /\ i + 1 < Len(ts)
            /\ RLe(ts[i + 1], t) /\ RLt(t, ts[i + 2])
            /\ RGt(RSub(ts[i + 2], ts[i + 1]), R(0))
            /\ LET alpha == RDiv(RSub(t, ts[i + 1]), RSub(ts[i + 2], ts[i + 1]))
               IN  /\ RLe(R(0), alpha) /\ RLe(alpha, R(1))
                   /\ (ExactDifference(ts[i + 2], ts[i + 1]) \/ t[2] # 1) => RLt(alpha, R(1))
            /\ chan_out.value # Panic
            /\ chan_out.value.value # NonFinite
            /\ chan_out.value.value # Panic

\* C28 witness: a Cubic channel whose three timestamps are not sorted, sampled between
\* the first and the last; the interval chosen is the second one.
C28_Witness ==
    /\ Computed /\ ReachesInterpolation(channel, chan_out.t)
    /\ ChannelMode(channel) = "Cubic"
    /\ Len(channel.timestamps) = 3
    /\ RLt(channel.timestamps[2], channel.timestamps[1])
    /\ get_index(channel.timestamps, chan_out.t) = 1
    /\ chan_out.value # Panic

\* C29: keyframes are hit exactly.  For a Vec3 (translation or scale) channel with
\* strictly increasing timestamps, compute(timestamps[k]) returns exactly values[k] for
\* every keyframe index k, the first, the interior ones and the last, in Step, Linear and
\* Cubic mode, whatever the tangents are.
C29_KeyframesHitExactly ==
    (Computed /\ IsVec3Channel(channel) /\ StrictlyIncreasing(channel.timestamps)) =>
        \A k \in 0..(Len(channel.timestamps) - 1) :
            chan_out.t = channel.timestamps[k + 1] => chan_out.value = Keyframe(channel, k)

\* C29 witness: a Cubic scale channel of three keyframes, with tangents that are not
\* zero, sampled exactly on its interior keyframe.
C29_Witness ==
    /\ Computed /\ channel.animated_property.kind = "Scale"
    /\ ChannelMode(channel) = "Cubic"
    /\ Len(channel.timestamps) = 3 /\ StrictlyIncreasing(channel.timestamps)
    /\ chan_out.t = channel.timestamps[2]
    /\ channel.animated_property.sampler.seqs[3][2] # V(0, 0, 0)
    /\ chan_out.value = Keyframe(channel, 1)

(***************************************************************************)
(* input.rs and the game loop of lib.rs.  The keyboard is an array of      *)
(* NumKeys key states (163 in the source), mouse deltas are integers.      *)
(***************************************************************************)
NumKeys == 2
MaxFrames == 2
MaxMouse == 2

Keys == 0..(NumKeys - 1)

\* KeyState::new
KeyStateNew == [state |-> FALSE, released |-> FALSE, pressed |-> FALSE]

\* Input::new
InputNew ==
    [mouse |-> [raw_x |-> 0, raw_y |-> 0],
     keyboard |-> [keys |-> [k \in Keys |-> KeyStateNew]]]

\* KeyState::reset
KeyStateReset(self) == [self EXCEPT !.released = FALSE, !.pressed = FALSE]

\* MouseInput::update_delta and MouseInput::reset
MouseUpdateDelta(self, x, y) == [raw_x |-> self.raw_x + x, raw_y |-> self.raw_y + y]
MouseReset(self) == [raw_x |-> 0, raw_y |-> 0]

\* KeyboardInput::reset
KeyboardReset(self) == [keys |-> [k \in Keys |-> KeyStateReset(self.keys[k])]]

\* Input::reset
InputReset(self) == [mouse |-> MouseReset(self.mouse), keyboard |-> KeyboardReset(self.keyboard)]

\* Input::update.  An event is a mouse motion, a key event with a key code, or any other
\* device event (a key event without a key code among them).
InputUpdate(self, event) ==
    CASE event.type = "MouseMotion" ->
            [self EXCEPT !.mouse = MouseUpdateDelta(@, event.delta[1], event.delta[2])]
      [] event.type = "Key" /\ event.state = "Pressed" ->
            [self EXCEPT !.keyboard.keys[event.key].pressed = TRUE,
                         !.keyboard.keys[event.key].state = TRUE]
      [] event.type = "Key" /\ event.state = "Released" ->
            [self EXCEPT !.keyboard.keys[event.key].released = TRUE,
                         !.keyboard.keys[event.key].state = FALSE]
      [] OTHER -> self

DeviceEvents ==
    {[type |-> "MouseMotion", delta |-> <<1, -1>>], [type |-> "Other"]}
      \cup [type : {"Key"}, key : Keys, state : {"Pressed", "Released"}]

\* What one more gamescene.update(&input) call adds to the record of what the scenes
\* saw: for each key and edge flag, the number of update calls that ran with the flag
\* set since the key event that set it (2 stands for two or more).
Observe(log, inp) ==
    [k \in Keys |->
        [pressed |-> IF inp.keyboard.keys[k].pressed /\ log[k].pressed < 2
                     THEN log[k].pressed + 1 ELSE log[k].pressed,
         released |-> IF inp.keyboard.keys[k].released /\ log[k].released < 2
                      THEN log[k].released + 1 ELSE log[k].released]]

\* A flag that is cleared has been seen by no update call.
Forget(log, inp) ==
    [k \in Keys |->
        [pressed |-> IF inp.keyboard.keys[k].pressed THEN log[k].pressed ELSE 0,
         released |-> IF inp.keyboard.keys[k].released THEN log[k].released ELSE 0]]

\* A key event sets its flag anew.
Fresh(log, event) ==
    IF event.type # "Key" THEN log
    ELSE IF event.state = "Pressed" THEN [log EXCEPT ![event.key].pressed = 0]
    ELSE [log EXCEPT ![event.key].released = 0]

Answers == {"Continue", "Stop", "ChangeScene"}
NumScenes == 2

\* The for loop of update_gamescene from iteration k on.  st is [input, gamescene,
\* frame_count, seen]; answers are what the scene's update calls return.
RECURSIVE FrameLoop(_, _, _)
FrameLoop(st, answers, k) ==
    IF k > Len(answers) THEN [st |-> st, returned |-> TRUE]
    ELSE
    LET updated == [st EXCEPT !.seen = Observe(st.seen, st.input)]
    IN  CASE answers[k] = "Continue" ->
                FrameLoop([updated EXCEPT !.frame_count = @ + 1,
                                          !.input = InputReset(@),
                                          !.seen = Forget(@, InputReset(updated.input))],
                          answers, k + 1)
          [] answers[k] = "Stop" -> [st |-> updated, returned |-> FALSE]
          [] answers[k] = "ChangeScene" ->
                [st |-> [updated EXCEPT !.gamescene = (@ + 1) % NumScenes, !.frame_count = 0],
                 returned |-> TRUE]

(***************************************************************************)
(* Specification SpecLoop: the event loop of run() delivering device       *)
(* events and MainEventsCleared to the GameLoop.                           *)
(***************************************************************************)
InitLoop ==
    /\ AnimatorIdle /\ ChannelIdle /\ TransformIdle
    /\ input = InputNew
    /\ gameloop = [gamescene |-> 0, frame_count |-> 0, control_flow |-> "Poll"]
    /\ seen = [k \in Keys |-> [pressed |-> 0, released |-> 0]]

\* Event::DeviceEvent: GameLoop::update_input
UpdateInput ==
    /\ gameloop # None /\ gameloop.control_flow = "Poll"
    /\ \E event \in DeviceEvents :
          /\ event.type = "MouseMotion" => input.mouse.raw_x < MaxMouse
          /\ input' = InputUpdate(input, event)
          /\ seen' = Fresh(seen, event)
    /\ UNCHANGED <<gameloop, animator_vars, caller_vars, channel_vars, xf_vars>>

\* Event::MainEventsCleared: GameLoop::update_gamescene with the frames that are due,
\* and the exit when it returns false.
UpdateGamescene ==
    /\ gameloop # None /\ gameloop.control_flow = "Poll"
    /\ \E frame_delta \in 0..(MaxFrames - gameloop.frame_count) :
       \E answers \in [1..frame_delta -> Answers] :
          LET r == FrameLoop([input |-> input, gamescene |-> gameloop.gamescene,
                              frame_count |-> gameloop.frame_count, seen |-> seen],
                             answers, 1)
          IN  /\ input' = r.st.input
              /\ seen' = r.st.seen
              /\ gameloop' = [gamescene |-> r.st.gamescene,
                              frame_count |-> r.st.frame_count,
                              control_flow |-> IF r.returned THEN "Poll" ELSE "Exit"]
    /\ UNCHANGED <<animator_vars, caller_vars, channel_vars, xf_vars>>

NextLoop == UpdateInput \/ UpdateGamescene

SpecLoop == InitLoop /\ [][NextLoop]_vars

\* C30: a key's one-frame edge flags are seen by at most one scene update.  For any
\* interleaving of device events and update_gamescene calls, including updates that
\* return ChangeScene or Stop, a pressed (or released) flag set by one key event is true
\* during at most one gamescene.update call; the held-down state flag is changed by no
\* update_gamescene call.
C30_EdgeFlagsSeenOnce ==
    /\ [](gameloop # None => \A k \in Keys : seen[k].pressed <= 1 /\ seen[k].released <= 1)
    /\ [][gameloop' # gameloop =>
            \A k \in Keys : input'.keyboard.keys[k].state = input.keyboard.keys[k].state]_vars

====
